---------------------------- MODULE Spec2Model ----------------------------
(***************************************************************************)
(* Model of the channel analytics core (src/analytics.js, class            *)
(* TGTrafficAnalytics): metrics normalisation, quality score, engagement   *)
(* metrics, recommendations, price estimate, the analyzeChannel failure    *)
(* boundary and compareChannels.                                           *)
(*                                                                         *)
(* Numbers.  JavaScript numbers are modelled as exact fixed-point          *)
(* integers; the unit of every decimal quantity is stated where it is      *)
(* introduced:                                                             *)
(*   raw inputs ci_index, err_percent            thousandths               *)
(*   reachPercentage, engagementRate, ciIndex,                             *)
(*   errPercent, overall, breakdown.*, rates     hundredths  (2 decimals)  *)
(*   postsPerDay                                 tenths      (1 decimal)   *)
(*   views.perSubscriber                         ten-thousandths           *)
(*   category / verified / tier multipliers      tenths                    *)
(*   modifiers.err                               1/20000                   *)
(*   counts, CPM and prices                      units                     *)
(* Math.round(x) is floor(x + 1/2), computed exactly on the rational x (a  *)
(* value that is exactly half-way may round the other way in binary        *)
(* floating point).  Math.log10 is tabulated, to 6 decimals, at the        *)
(* subscriber counts the model draws.                                      *)
(*                                                                         *)
(* Objects.  A JavaScript object is a record; a property that is absent    *)
(* (undefined) is a field outside the record's DOMAIN.  null is NULL.      *)
(***************************************************************************)
EXTENDS Integers, Sequences, FiniteSets, TLC

VARIABLES
    categoryMultipliers,  \* this.categoryMultipliers (tenths)
    qualityThresholds,    \* this.qualityThresholds (score per badge)
    op,                   \* the method whose call is outstanding, or "idle"
    passed,               \* its arguments as the caller passed them
    args,                 \* its arguments as the call left them
    ret,                  \* what it returned, or the error it raised
    apiKey,               \* TGStatAPI: this.apiKey
    request,              \* the makeRequest call in flight, with its retries
    batch,                \* the batchAnalyzeChannels call in flight
    localStorage,         \* the browser's localStorage: key -> stored string
    added                 \* the results addAnalysisResult stored, oldest first

vars ==
    <<categoryMultipliers, qualityThresholds, op, passed, args, ret,
      apiKey, request, batch, localStorage, added>>

----------------------------------------------------------------------------
(* JavaScript values *)

NULL == [isNull |-> TRUE]

IsNull(v) == DOMAIN v = {"isNull"}

\* the object has property f (it is not undefined)
Has(o, f) == f \in DOMAIN o

\* NumOr taking any present value, 0 included (`o.f ?? dflt`)
NumOr_PresentWins(o, f, dflt) == IF Has(o, f) THEN o[f] ELSE dflt

\* `o.f || dflt` for a numeric property
NumOr(o, f, dflt) == IF Has(o, f) /\ o[f] # 0 THEN o[f] ELSE dflt

\* `o.f || dflt` for a string property
StrOr(o, f, dflt) == IF Has(o, f) /\ o[f] # "" THEN o[f] ELSE dflt

\* `o.f || false` for a boolean property
BoolOr(o, f) == IF Has(o, f) THEN o[f] ELSE FALSE

\* `o?.f || dflt` where o may be null
OptNumOr(o, f, dflt) == IF IsNull(o) THEN dflt ELSE NumOr(o, f, dflt)

\* what a method call produced
Returned(v) == [raised |-> FALSE, value |-> v]
Raised(e)   == [raised |-> TRUE, error |-> e]

\* the result of 0/0
NaN == [nan |-> TRUE]

----------------------------------------------------------------------------
(* Arithmetic *)

Min(a, b) == IF a <= b THEN a ELSE b
Max(a, b) == IF a >= b THEN a ELSE b

\* Math.round(n/d) for d > 0: floor(n/d + 1/2)
RoundDiv(n, d) == (n \div d) + (IF 2 * (n % d) >= d THEN 1 ELSE 0)

\* floor(a*b / 10^6) for a >= 0 and |b| <= 20000, without forming a*b
MulShift6(a, b) ==
    LET ah == a \div 1000000
        am == (a \div 1000) % 1000
        al == a % 1000
    IN  ah * b + (am * b + (al * b) \div 1000) \div 1000

\* Math.min(cap, v * k) for v >= 0, k > 0, without forming a product above cap
MinOfProduct(cap, v, k) == IF v > cap \div k THEN cap ELSE Min(cap, v * k)

\* Math.round(x) given t = floor(2x)
RoundHalf(t) == (t + 1) \div 2

----------------------------------------------------------------------------
(* constructor *)

\* this.qualityThresholds: the score of each badge
InitQualityThresholds ==
    [excellent |-> 90, good |-> 70, average |-> 50, poor |-> 30, bad |-> 0]

\* this.categoryMultipliers, in tenths
InitCategoryMultipliers ==
    [news |-> 12, tech |-> 13, lifestyle |-> 10, entertainment |-> 9,
     business |-> 14, education |-> 11, unknown |-> 10]

\* `this.categoryMultipliers[category] || 1.0`, in tenths
CategoryMultiplier(category) ==
    IF category \in DOMAIN categoryMultipliers /\ categoryMultipliers[category] # 0
    THEN categoryMultipliers[category]
    ELSE 10

----------------------------------------------------------------------------
(* Faults.  The runtime raises a TypeError when a step meets a value it    *)
(* cannot compute with (a BigInt mixed with a number, an object that has   *)
(* no primitive value, a throwing accessor).  Channel data carrying such   *)
(* a value has a field `fault` naming the first step that meets it; well-  *)
(* formed data has no such field.  Reading a property of null raises in    *)
(* the first step.                                                         *)

Steps == <<"metrics", "score", "engagement", "recommendations", "price">>

\* the step of analyzeChannel's try block that raises, or "none"
FaultStep(channelData) ==
    IF IsNull(channelData) THEN "metrics"
    ELSE IF Has(channelData, "fault") THEN channelData.fault
    ELSE "none"

\* error.message of the TypeError raised in a step
FaultMessage(channelData) ==
    IF IsNull(channelData)
    THEN "Cannot read properties of null (reading 'participants_count')"
    ELSE "TypeError in " \o channelData.fault

----------------------------------------------------------------------------
(* calculateChannelMetrics *)

\* periodDays when stats.period is absent or 0
DefaultPeriod == 7

\* postsPerDay, in tenths, when no posts count is usable
DefaultPostsPerDayX10 == 10

\* PostsPerDay falling back to 0 instead of 1
PostsPerDay_ZeroDefault(statsData) ==
    IF OptNumOr(statsData, "posts_count", 0) # 0
    THEN RoundDiv(OptNumOr(statsData, "posts_count", 0) * 10,
                  OptNumOr(statsData, "period", DefaultPeriod))
    ELSE 0

\* statsData?.posts_count ? statsData.posts_count / (statsData.period || 7) : 1,
\* rounded to tenths
PostsPerDay(statsData) ==
    IF OptNumOr(statsData, "posts_count", 0) # 0
    THEN RoundDiv(OptNumOr(statsData, "posts_count", 0) * 10,
                  OptNumOr(statsData, "period", DefaultPeriod))
    ELSE DefaultPostsPerDayX10

calculateChannelMetrics(channelData, statsData) ==
    LET subscribers == NumOr(channelData, "participants_count", 0)
        avgReach    == NumOr(channelData, "avg_post_reach",
                             OptNumOr(statsData, "avg_post_reach", 0))
        \* thousandths
        ciIndex     == NumOr(channelData, "ci_index",
                             OptNumOr(statsData, "ci_index", 0))
        errPercent  == NumOr(channelData, "err_percent", 0)
    IN  [ subscribers     |-> subscribers,
          avgReach        |-> avgReach,
          \* round(avgReach / subscribers * 100 * 100) / 100
          reachPercentage |-> IF subscribers > 0
                              THEN RoundDiv(avgReach * 10000, subscribers)
                              ELSE 0,
          \* ciIndex > 0 ? ciIndex : reachPercentage * 0.8 (the unrounded one)
          engagementRate  |-> IF ciIndex > 0 THEN RoundDiv(ciIndex, 10)
                              ELSE IF subscribers > 0
                                   THEN RoundDiv(avgReach * 8000, subscribers)
                                   ELSE 0,
          ciIndex         |-> RoundDiv(ciIndex, 10),
          errPercent      |-> RoundDiv(errPercent, 10),
          postsPerDay     |-> PostsPerDay(statsData),
          viewsPerPost    |-> OptNumOr(statsData, "views_per_post", avgReach),
          forwardsPerPost |-> OptNumOr(statsData, "forwards_per_post", 0),
          mentionsPerPost |-> OptNumOr(statsData, "mentions_per_post", 0),
          category        |-> StrOr(channelData, "category", "unknown"),
          verified        |-> BoolOr(channelData, "verified"),
          language        |-> StrOr(channelData, "language", "unknown") ]

----------------------------------------------------------------------------
(* calculateQualityScore *)

\* Math.log10(n) in millionths, at the subscriber counts the model draws
Log10E6(n) ==
    CASE n = 1      -> 0
      [] n = 2      -> 301030
      [] n = 9      -> 954243
      [] n = 999    -> 2999565
      [] n = 1000   -> 3000000
      [] n = 1001   -> 3000434
      [] n = 10000  -> 4000000
      [] n = 10001  -> 4000043
      [] n = 50000  -> 4698970
      [] n = 50001  -> 4698979
      [] n = 100000 -> 5000000
      [] n = 100001 -> 5000004
      [] n = 150000 -> 5176091

\* the four sub-scores, in ten-thousandths of a point, each capped
\* (SubscriberScoreE4_Unscaled: the logarithm taken without its factor 5)
SubscriberScoreE4_Unscaled(metrics) ==
    Min(250000, Log10E6(metrics.subscribers) \div 100)
SubscriberScoreE4(metrics) ==
    Min(250000, (Log10E6(metrics.subscribers) * 5) \div 100)
ReachScoreE4(metrics)      == MinOfProduct(300000, metrics.reachPercentage, 200)
EngagementScoreE4(metrics) == MinOfProduct(250000, metrics.engagementRate, 500)
\* CiScoreE4 with Math.max written for Math.min
CiScoreE4_Max(metrics)     == Max(200000, metrics.ciIndex * 2000)
CiScoreE4(metrics)         == MinOfProduct(200000, metrics.ciIndex, 2000)

\* `score` after the four weighted additions: ten-thousandths of a point
\* times the weight in units of 0.05 (0.25, 0.30, 0.25, 0.20 are 5, 6, 5, 4)
WeightedScore(metrics) ==
      (IF metrics.subscribers > 0     THEN SubscriberScoreE4(metrics) * 5 ELSE 0)
    + (IF metrics.reachPercentage > 0 THEN ReachScoreE4(metrics) * 6      ELSE 0)
    + (IF metrics.engagementRate > 0  THEN EngagementScoreE4(metrics) * 5 ELSE 0)
    + (IF metrics.ciIndex > 0         THEN CiScoreE4(metrics) * 4         ELSE 0)

\* TotalWeight counting all four weights whatever the metrics
TotalWeight_AllFactors(metrics) == 5 + 6 + 5 + 4

\* `weights` in units of 0.05
TotalWeight(metrics) ==
      (IF metrics.subscribers > 0     THEN 5 ELSE 0)
    + (IF metrics.reachPercentage > 0 THEN 6 ELSE 0)
    + (IF metrics.engagementRate > 0  THEN 5 ELSE 0)
    + (IF metrics.ciIndex > 0         THEN 4 ELSE 0)

\* verified ? 1.1 : 1.0, in tenths
VerifiedModifier(metrics) == IF metrics.verified THEN 11 ELSE 10

\* errPercent > 5 ? 1 - errPercent / 100 * 0.5 : 1.0, in units of 1/20000
ErrModifier(metrics) ==
    IF metrics.errPercent > 500 THEN 20000 - metrics.errPercent ELSE 20000

\* score / weights * 100 after the three modifiers, rounded to hundredths:
\* WeightedScore * category * verified * err / (2 * 10^6 * TotalWeight),
\* for TotalWeight > 0.  It is negative when the err modifier is.
NormalizedScore(metrics) ==
    LET x == WeightedScore(metrics) * CategoryMultiplier(metrics.category)
                 * VerifiedModifier(metrics)
    IN  RoundHalf(MulShift6(x, ErrModifier(metrics)) \div TotalWeight(metrics))

\* Clamp with the upper bound forgotten: Math.max(0, v)
Clamp_NoMin(v) == Max(0, v)

\* Math.min(100, Math.max(0, v)), in hundredths
Clamp(v) == Min(10000, Max(0, v))

\* weights > 0 ? Math.min(100, Math.max(0, score / weights * 100)) : 0
FinalScore(metrics) ==
    IF TotalWeight(metrics) > 0 THEN Clamp(NormalizedScore(metrics)) ELSE 0

calculateQualityScore(metrics) ==
    [ overall   |-> FinalScore(metrics),
      breakdown |->
        [ subscribers |-> IF metrics.subscribers > 0
                          THEN RoundDiv(Log10E6(metrics.subscribers) * 5, 10000)
                          ELSE 0,
          reach       |-> RoundDiv(ReachScoreE4(metrics), 100),
          engagement  |-> RoundDiv(EngagementScoreE4(metrics), 100),
          ci          |-> RoundDiv(CiScoreE4(metrics), 100) ],
      modifiers |->
        [ category |-> CategoryMultiplier(metrics.category),
          verified |-> VerifiedModifier(metrics),
          err      |-> ErrModifier(metrics) ] ]

----------------------------------------------------------------------------
(* calculateEngagementMetrics *)

\* calculateConsistencyScore with the lower edge of the top band exclusive
calculateConsistencyScore_OpenEdge(postsPerDay) ==
    IF postsPerDay > 10 /\ postsPerDay <= 30 THEN "excellent"
    ELSE IF postsPerDay >= 5 /\ postsPerDay < 10 THEN "good"
    ELSE IF postsPerDay >= 2 /\ postsPerDay < 5 THEN "average"
    ELSE IF postsPerDay > 30 THEN "too_frequent"
    ELSE "poor"

\* postsPerDay is in tenths
calculateConsistencyScore(postsPerDay) ==
    IF postsPerDay >= 10 /\ postsPerDay <= 30 THEN "excellent"
    ELSE IF postsPerDay >= 5 /\ postsPerDay < 10 THEN "good"
    ELSE IF postsPerDay >= 2 /\ postsPerDay < 5 THEN "average"
    ELSE IF postsPerDay > 30 THEN "too_frequent"
    ELSE "poor"

\* calculateViralPotential with the top forward band closed at 5
calculateViralPotential_Inclusive(engagementMetrics) ==
    LET forwards == IF engagementMetrics.forwards.rate >= 500 THEN 40
                    ELSE IF engagementMetrics.forwards.rate > 200 THEN 25
                    ELSE IF engagementMetrics.forwards.rate > 100 THEN 15
                    ELSE 0
        mentions == IF engagementMetrics.mentions.rate > 300 THEN 30
                    ELSE IF engagementMetrics.mentions.rate > 100 THEN 20
                    ELSE IF engagementMetrics.mentions.rate > 50 THEN 10
                    ELSE 0
        views    == IF engagementMetrics.views.perSubscriber > 12000 THEN 20
                    ELSE IF engagementMetrics.views.perSubscriber > 10000 THEN 15
                    ELSE IF engagementMetrics.views.perSubscriber > 8000 THEN 10
                    ELSE 0
        activity == IF engagementMetrics.activity.consistency = "excellent" THEN 10
                    ELSE IF engagementMetrics.activity.consistency = "good" THEN 5
                    ELSE 0
    IN  Min(100, forwards + mentions + views + activity)

\* rates in hundredths, views.perSubscriber in ten-thousandths
calculateViralPotential(engagementMetrics) ==
    LET forwards == IF engagementMetrics.forwards.rate > 500 THEN 40
                    ELSE IF engagementMetrics.forwards.rate > 200 THEN 25
                    ELSE IF engagementMetrics.forwards.rate > 100 THEN 15
                    ELSE 0
        mentions == IF engagementMetrics.mentions.rate > 300 THEN 30
                    ELSE IF engagementMetrics.mentions.rate > 100 THEN 20
                    ELSE IF engagementMetrics.mentions.rate > 50 THEN 10
                    ELSE 0
        views    == IF engagementMetrics.views.perSubscriber > 12000 THEN 20
                    ELSE IF engagementMetrics.views.perSubscriber > 10000 THEN 15
                    ELSE IF engagementMetrics.views.perSubscriber > 8000 THEN 10
                    ELSE 0
        activity == IF engagementMetrics.activity.consistency = "excellent" THEN 10
                    ELSE IF engagementMetrics.activity.consistency = "good" THEN 5
                    ELSE 0
    IN  Min(100, forwards + mentions + views + activity)

\* calculateEngagementMetrics with forwards.rate left as a fraction of views
calculateEngagementMetrics_ForwardFraction(metrics) ==
    LET engagement ==
          [ views    |-> [ total |-> metrics.viewsPerPost,
                           perSubscriber |->
                               IF metrics.subscribers > 0
                               THEN RoundDiv(metrics.viewsPerPost * 10000,
                                             metrics.subscribers)
                               ELSE 0 ],
            forwards |-> [ total |-> metrics.forwardsPerPost,
                           rate  |-> IF metrics.viewsPerPost > 0
                                     THEN RoundDiv(metrics.forwardsPerPost * 100,
                                                   metrics.viewsPerPost)
                                     ELSE 0 ],
            mentions |-> [ total |-> metrics.mentionsPerPost,
                           rate  |-> IF metrics.viewsPerPost > 0
                                     THEN RoundDiv(metrics.mentionsPerPost * 10000,
                                                   metrics.viewsPerPost)
                                     ELSE 0 ],
            activity |-> [ postsPerDay |-> metrics.postsPerDay,
                           consistency |->
                               calculateConsistencyScore(metrics.postsPerDay) ] ]
    IN  [ views          |-> engagement.views,
          forwards       |-> engagement.forwards,
          mentions       |-> engagement.mentions,
          activity       |-> engagement.activity,
          viralPotential |-> calculateViralPotential(engagement) ]

calculateEngagementMetrics(metrics) ==
    LET engagement ==
          [ views    |-> [ total |-> metrics.viewsPerPost,
                           perSubscriber |->
                               IF metrics.subscribers > 0
                               THEN RoundDiv(metrics.viewsPerPost * 10000,
                                             metrics.subscribers)
                               ELSE 0 ],
            forwards |-> [ total |-> metrics.forwardsPerPost,
                           rate  |-> IF metrics.viewsPerPost > 0
                                     THEN RoundDiv(metrics.forwardsPerPost * 10000,
                                                   metrics.viewsPerPost)
                                     ELSE 0 ],
            mentions |-> [ total |-> metrics.mentionsPerPost,
                           rate  |-> IF metrics.viewsPerPost > 0
                                     THEN RoundDiv(metrics.mentionsPerPost * 10000,
                                                   metrics.viewsPerPost)
                                     ELSE 0 ],
            activity |-> [ postsPerDay |-> metrics.postsPerDay,
                           consistency |->
                               calculateConsistencyScore(metrics.postsPerDay) ] ]
    IN  [ views          |-> engagement.views,
          forwards       |-> engagement.forwards,
          mentions       |-> engagement.mentions,
          activity       |-> engagement.activity,
          viralPotential |-> calculateViralPotential(engagement) ]

----------------------------------------------------------------------------
(* generateRecommendations *)

\* a recommendation: its type and the rule that produced it (title and message
\* are texts of the rule)
Recommendation(type, rule) == [type |-> type, rule |-> rule]

\* Verdict with > written for >=
Verdict_Strict(qualityScore) ==
    IF qualityScore.overall > 9000 THEN Recommendation("success", "excellent")
    ELSE IF qualityScore.overall > 7000 THEN Recommendation("info", "good")
    ELSE Recommendation("warning", "needs_review")

\* the first entry
Verdict(qualityScore) ==
    IF qualityScore.overall >= 9000 THEN Recommendation("success", "excellent")
    ELSE IF qualityScore.overall >= 7000 THEN Recommendation("info", "good")
    ELSE Recommendation("warning", "needs_review")

\* generateRecommendations with the danger rule at the score's ERR threshold
generateRecommendations_OneErrThreshold(metrics, qualityScore) ==
    <<Verdict(qualityScore)>>
    \o (IF metrics.reachPercentage < 2000
        THEN <<Recommendation("warning", "low_reach")>> ELSE <<>>)
    \o (IF metrics.errPercent > 500
        THEN <<Recommendation("danger", "high_err")>> ELSE <<>>)
    \o (IF metrics.engagementRate < 500
        THEN <<Recommendation("info", "low_engagement")>> ELSE <<>>)
    \o (IF metrics.postsPerDay > 50
        THEN <<Recommendation("warning", "too_many_posts")>> ELSE <<>>)

generateRecommendations(metrics, qualityScore) ==
    <<Verdict(qualityScore)>>
    \o (IF metrics.reachPercentage < 2000
        THEN <<Recommendation("warning", "low_reach")>> ELSE <<>>)
    \o (IF metrics.errPercent > 1000
        THEN <<Recommendation("danger", "high_err")>> ELSE <<>>)
    \o (IF metrics.engagementRate < 500
        THEN <<Recommendation("info", "low_engagement")>> ELSE <<>>)
    \o (IF metrics.postsPerDay > 50
        THEN <<Recommendation("warning", "too_many_posts")>> ELSE <<>>)

----------------------------------------------------------------------------
(* estimateAdPrice *)

\* base CPM in rubles
BaseCpm == 100

\* SubscriberTier with the small-channel band starting above 0 subscribers
SubscriberTier_SkipZero(metrics) ==
    IF metrics.subscribers > 100000 THEN 15
    ELSE IF metrics.subscribers > 50000 THEN 13
    ELSE IF metrics.subscribers > 10000 THEN 11
    ELSE IF metrics.subscribers > 0 /\ metrics.subscribers < 1000 THEN 5
    ELSE 10

\* tenths
SubscriberTier(metrics) ==
    IF metrics.subscribers > 100000 THEN 15
    ELSE IF metrics.subscribers > 50000 THEN 13
    ELSE IF metrics.subscribers > 10000 THEN 11
    ELSE IF metrics.subscribers < 1000 THEN 5
    ELSE 10

\* EngagementTier with the top band closed at 15
EngagementTier_Inclusive(metrics) ==
    IF metrics.engagementRate >= 1500 THEN 14
    ELSE IF metrics.engagementRate > 1000 THEN 12
    ELSE IF metrics.engagementRate < 300 THEN 8
    ELSE 10

\* tenths; engagementRate is in hundredths
EngagementTier(metrics) ==
    IF metrics.engagementRate > 1500 THEN 14
    ELSE IF metrics.engagementRate > 1000 THEN 12
    ELSE IF metrics.engagementRate < 300 THEN 8
    ELSE 10

\* tenths
VerifiedPremium(metrics) == IF metrics.verified THEN 12 ELSE 10

\* QualityMultiplier as overall / 100 alone
QualityMultiplier_NoBase(qualityScore) == qualityScore.overall

\* 0.5 + overall / 100, in ten-thousandths
QualityMultiplier(qualityScore) == 5000 + qualityScore.overall

\* baseCpm after the five adjustments, in millionths of a ruble.  The product
\* of the tenths and ten-thousandths is in units of 10^-8; BaseCpm is a
\* multiple of 100, so the first division is exact.
CpmE6(metrics, qualityScore) ==
    ((BaseCpm * SubscriberTier(metrics) * CategoryMultiplier(metrics.category))
        \div 100)
    * QualityMultiplier(qualityScore) * EngagementTier(metrics)
    * VerifiedPremium(metrics)

\* Math.round(baseCpm * k / 10), k in tenths
RoundCpm(cpmE6, k) == RoundHalf(MulShift6(cpmE6, 2 * k) \div 10)

\* MaxPrice as the 30% margin alone, without the base
MaxPrice_MarginOnly(baseCpm) == RoundCpm(baseCpm, 3)

\* the price range: 30% either side of baseCpm
MinPrice(baseCpm) == RoundCpm(baseCpm, 7)
MaxPrice(baseCpm) == RoundCpm(baseCpm, 13)
AvgPrice(baseCpm) == RoundCpm(baseCpm, 10)

estimateAdPrice(metrics, qualityScore) ==
    LET baseCpm  == CpmE6(metrics, qualityScore)
        minPrice == MinPrice(baseCpm)
        maxPrice == MaxPrice(baseCpm)
        avgPrice == AvgPrice(baseCpm)
        \* metrics.avgReach || subscribers * 0.3, in tenths of a view
        estimatedViews == IF metrics.avgReach # 0 THEN metrics.avgReach * 10
                          ELSE metrics.subscribers * 3
    IN  [ cpm       |-> [min |-> minPrice, max |-> maxPrice, avg |-> avgPrice,
                         currency |-> "RUB"],
          \* Math.round(avgPrice / 1000 * (estimatedViews / 1000) * 1000)
          postPrice |-> [estimated |-> RoundDiv(avgPrice * estimatedViews, 10000),
                         currency |-> "RUB"],
          factors   |-> [subscribers |-> metrics.subscribers,
                         category    |-> metrics.category,
                         quality     |-> qualityScore.overall,
                         engagement  |-> metrics.engagementRate,
                         verified    |-> metrics.verified] ]

----------------------------------------------------------------------------
(* analyzeChannel *)

\* the identity fields copied into a success record
IdentityFields ==
    {"username", "title", "description", "participants_count", "category",
     "verified", "language"}

\* new Date().toISOString()
Timestamp == "ISO-8601"

\* the body of the try block: the five steps and the success record
TryAnalyze(channelData, statsData) ==
    IF FaultStep(channelData) # "none"
    THEN Raised(FaultMessage(channelData))
    ELSE LET metrics      == calculateChannelMetrics(channelData, statsData)
             qualityScore == calculateQualityScore(metrics)
         IN  Returned(
               [ success           |-> TRUE,
                 channel           |-> [f \in DOMAIN channelData \cap IdentityFields
                                          |-> channelData[f]],
                 metrics           |-> metrics,
                 qualityScore      |-> qualityScore,
                 engagementMetrics |-> calculateEngagementMetrics(metrics),
                 recommendations   |-> generateRecommendations(metrics, qualityScore),
                 priceEstimate     |-> estimateAdPrice(metrics, qualityScore),
                 analysisTimestamp |-> Timestamp ])

\* analyzeChannel without the try/catch: a fault propagates to the caller
analyzeChannel_NoCatch(channelData, statsData) ==
    TryAnalyze(channelData, statsData)

\* analyzeChannel whose catch fills the analysis fields with null
analyzeChannel_PartialFailure(channelData, statsData) ==
    LET attempt == TryAnalyze(channelData, statsData)
    IN  IF attempt.raised
        THEN Returned(
               [ success |-> FALSE,
                 error   |-> attempt.error,
                 channel |-> IF IsNull(channelData) THEN NULL
                             ELSE [username |-> channelData.username],
                 metrics |-> NULL,
                 qualityScore |-> NULL ])
        ELSE attempt

\* try { ... } catch (error) { return the failure record }
analyzeChannel(channelData, statsData) ==
    LET attempt == TryAnalyze(channelData, statsData)
    IN  IF attempt.raised
        THEN Returned(
               [ success |-> FALSE,
                 error   |-> attempt.error,
                 channel |-> IF IsNull(channelData) THEN NULL
                             ELSE [username |-> channelData.username] ])
        ELSE attempt

----------------------------------------------------------------------------
(* compareChannels *)

\* the comparator (a, b) => b.qualityScore.overall - a.qualityScore.overall
Compare(a, b) == b.qualityScore.overall - a.qualityScore.overall

\* Insert putting x in front of the entries it ties with: an unstable sort
RECURSIVE Insert_BeforeEqual(_, _)
Insert_BeforeEqual(s, x) ==
    IF Len(s) = 0 THEN <<x>>
    ELSE IF Compare(Head(s), x) < 0
    THEN <<Head(s)>> \o Insert_BeforeEqual(Tail(s), x)
    ELSE <<x>> \o s

\* x put into the sorted s behind every entry the comparator does not order
\* after it
RECURSIVE Insert(_, _)
Insert(s, x) ==
    IF Len(s) = 0 THEN <<x>>
    ELSE IF Compare(Head(s), x) <= 0 THEN <<Head(s)>> \o Insert(Tail(s), x)
    ELSE <<x>> \o s

\* Array.prototype.sort with the comparator: a stable sort
RECURSIVE Sort(_)
Sort(s) ==
    IF Len(s) = 0 THEN <<>>
    ELSE Insert(Sort(SubSeq(s, 1, Len(s) - 1)), s[Len(s)])

\* the sum of f[i] over i in 1..n
RECURSIVE Sum(_, _)
Sum(f, n) == IF n = 0 THEN 0 ELSE f[n] + Sum(f, n - 1)

\* precondition: every channel has metrics, qualityScore and priceEstimate
calculateCategoryStats(channels) ==
    LET n          == Len(channels)
        categories == {channels[i].metrics.category : i \in 1..n}
        In(c, i)   == channels[i].metrics.category = c
        count(c)   == Sum([i \in 1..n |-> IF In(c, i) THEN 1 ELSE 0], n)
    IN  [ c \in categories |->
            [ count          |-> count(c),
              avgScore       |-> RoundDiv(
                  Sum([i \in 1..n |-> IF In(c, i)
                       THEN channels[i].qualityScore.overall ELSE 0], n),
                  count(c)),
              avgSubscribers |-> RoundDiv(
                  Sum([i \in 1..n |-> IF In(c, i)
                       THEN channels[i].metrics.subscribers ELSE 0], n),
                  count(c)),
              avgCpm         |-> RoundDiv(
                  Sum([i \in 1..n |-> IF In(c, i)
                       THEN channels[i].priceEstimate.cpm.avg ELSE 0], n),
                  count(c)) ] ]

\* Math.round(sum / length), NaN for an empty list
Average(f, n) == IF n = 0 THEN NaN ELSE RoundDiv(Sum(f, n), n)

\* channelsData: a sequence of [info, stats]
compareChannels(channelsData) ==
    LET n           == Len(channelsData)
        analyses    == [i \in 1..n |->
                          analyzeChannel(channelsData[i].info,
                                         channelsData[i].stats)]
        comparisons == [i \in 1..n |-> analyses[i].value @@ [rank |-> 0]]
        \* a failure record has no qualityScore and no metrics
        unscored    == \E i \in 1..n : ~Has(comparisons[i], "qualityScore")
    IN  IF \E i \in 1..n : analyses[i].raised
        THEN Raised((CHOOSE i \in 1..n : analyses[i].raised).error)
        ELSE IF n >= 2 /\ unscored
        THEN \* the comparator reads .overall of undefined
             Raised("Cannot read properties of undefined (reading 'overall')")
        ELSE IF unscored
        THEN \* calculateCategoryStats reads .category of undefined
             Raised("Cannot read properties of undefined (reading 'category')")
        ELSE LET sorted == Sort(comparisons)
                 ranked == [i \in 1..n |-> [sorted[i] EXCEPT !.rank = i]]
             IN  Returned(
                   [ channels |-> ranked,
                     summary  |->
                       [ total           |-> n,
                         avgQualityScore |-> Average(
                             [i \in 1..n |-> ranked[i].qualityScore.overall], n),
                         avgSubscribers  |-> Average(
                             [i \in 1..n |-> ranked[i].metrics.subscribers], n),
                         avgReach        |-> Average(
                             [i \in 1..n |-> ranked[i].metrics.reachPercentage], n),
                         categoryStats   |-> calculateCategoryStats(ranked) ] ])

----------------------------------------------------------------------------
(* generateExportData *)

\* new Date(timestamp).toLocaleString('ru-RU')
LocaleString(timestamp) ==
    IF timestamp = Timestamp THEN "dd.mm.yyyy, hh:mm:ss" ELSE "Invalid Date"

\* the export row of a success record found at position index + 1.  The
\* columns are named here in English, in the order of the source's (lines
\* 455-475); numbers keep the unit they have in the result.
ExportRow(result, index) ==
    [ rank              |-> index + 1,
      channel           |-> "@" \o result.channel.username,
      title             |-> StrOr(result.channel, "title", ""),
      subscribers       |-> result.metrics.subscribers,
      reachPercent      |-> result.metrics.reachPercentage,
      engagementPercent |-> result.metrics.engagementRate,
      ciIndex           |-> result.metrics.ciIndex,
      errPercent        |-> result.metrics.errPercent,
      qualityScore      |-> result.qualityScore.overall,
      category          |-> result.metrics.category,
      verified          |-> IF result.metrics.verified THEN "yes" ELSE "no",
      cpmMin            |-> result.priceEstimate.cpm.min,
      cpmMax            |-> result.priceEstimate.cpm.max,
      cpmAvg            |-> result.priceEstimate.cpm.avg,
      postPrice         |-> result.priceEstimate.postPrice.estimated,
      postsPerDay       |-> result.metrics.postsPerDay,
      viewsPerPost      |-> result.metrics.viewsPerPost,
      forwardsPerPost   |-> result.metrics.forwardsPerPost,
      mentionsPerPost   |-> result.metrics.mentionsPerPost,
      language          |-> result.metrics.language,
      analysisDate      |-> LocaleString(result.analysisTimestamp) ]

\* exportData after the first n results have been visited, with rows put in
\* front of the earlier ones
RECURSIVE ExportFirst_NewestFirst(_, _)
ExportFirst_NewestFirst(analysisResults, n) ==
    IF n = 0 THEN <<>>
    ELSE LET rows   == ExportFirst_NewestFirst(analysisResults, n - 1)
             result == analysisResults[n]
         IN  IF result.success THEN <<ExportRow(result, n - 1)>> \o rows
             ELSE rows

\* exportData after forEach has visited the first n results
RECURSIVE ExportFirst(_, _)
ExportFirst(analysisResults, n) ==
    IF n = 0 THEN <<>>
    ELSE LET rows   == ExportFirst(analysisResults, n - 1)
             result == analysisResults[n]
         IN  IF result.success THEN Append(rows, ExportRow(result, n - 1))
             ELSE rows

generateExportData(analysisResults) ==
    ExportFirst(analysisResults, Len(analysisResults))

----------------------------------------------------------------------------
(* validateAnalysisData *)

\* Where the type of a value matters it is tagged with what typeof gives:
\* a number n, NaN (a number that compares false with everything), a string
\* and null (an "object").  An absent property is undefined.
Num(n)     == [type |-> "number", num |-> n]
NotANumber == [type |-> "number", nan |-> TRUE]
Str(s)     == [type |-> "string", str |-> s]
NullValue  == [type |-> "object"]

\* typeof o.f
TypeOfProperty(o, f) == IF Has(o, f) THEN o[f].type ELSE "undefined"

\* o.f < 0, for o.f a number
IsNegative(o, f) == Has(o[f], "num") /\ o[f].num < 0

\* validateAnalysisData answering false to a bad subscriber count
validateAnalysisData_ReturnsFalse(channelData) ==
    IF IsNull(channelData) THEN Raised("channel data missing")
    ELSE IF ~Has(channelData, "username") \/ channelData.username = ""
    THEN Raised("channel name missing")
    ELSE IF \/ TypeOfProperty(channelData, "participants_count") # "number"
            \/ IsNegative(channelData, "participants_count")
    THEN Returned(FALSE)
    ELSE Returned(TRUE)

validateAnalysisData(channelData) ==
    IF IsNull(channelData) THEN Raised("channel data missing")
    ELSE IF ~Has(channelData, "username") \/ channelData.username = ""
    THEN Raised("channel name missing")
    ELSE IF \/ TypeOfProperty(channelData, "participants_count") # "number"
            \/ IsNegative(channelData, "participants_count")
    THEN Raised("bad subscriber count")
    ELSE Returned(TRUE)

----------------------------------------------------------------------------
(* Inputs *)

\* the longest batch handed to compareChannels
MaxBatch == 3

\* a channel record as the channel-info provider returns it
Channel(username, participants, reach, ci, err, category, verified) ==
    [ username |-> username, title |-> "t", description |-> "",
      participants_count |-> participants, avg_post_reach |-> reach,
      ci_index |-> ci, err_percent |-> err, category |-> category,
      verified |-> verified, language |-> "ru" ]

\* well-formed channel data: every field present
FullChannels ==
    { Channel("a", p, r, ci, err, cat, v) :
        p   \in {0, 1, 2, 1000, 50000, 150000},
        r   \in {0, 150, 15000},
        ci  \in {0, 4, 3200},
        err \in {0, 2000, 5004, 5005, 12000, 250000},
        cat \in {"tech", "entertainment", "sports"},
        v   \in BOOLEAN }

\* channel data with properties missing
SparseChannels ==
    { [username |-> "s"],
      [username |-> "s", participants_count |-> 1000],
      [username |-> "s", participants_count |-> 1000, category |-> ""],
      [username |-> "s", title |-> "t", avg_post_reach |-> 150],
      [username |-> "s", participants_count |-> 50000, ci_index |-> 3200,
       verified |-> TRUE] }

\* channel data on which one of the five steps raises
FaultyChannels ==
    { [username |-> "f", participants_count |-> 1000, fault |-> step] :
        step \in {Steps[i] : i \in DOMAIN Steps} }

ChannelInputs == FullChannels \cup SparseChannels \cup FaultyChannels \cup {NULL}

\* period stats: absent, empty, partial and full
StatsInputs ==
    { NULL,
      [period |-> 7],
      [period |-> 7, posts_count |-> 0, views_per_post |-> 0,
       forwards_per_post |-> 0, mentions_per_post |-> 0, avg_post_reach |-> 0,
       ci_index |-> 0],
      [posts_count |-> 14, avg_post_reach |-> 300, ci_index |-> 1500],
      [period |-> 30, posts_count |-> 200, views_per_post |-> 1200,
       forwards_per_post |-> 70, mentions_per_post |-> 40,
       avg_post_reach |-> 900, ci_index |-> 0] }

\* a metrics bundle
Bundle(subscribers, avgReach, reach, engagement, ci, err, posts, category, verified) ==
    [ subscribers |-> subscribers, avgReach |-> avgReach,
      reachPercentage |-> reach, engagementRate |-> engagement,
      ciIndex |-> ci, errPercent |-> err, postsPerDay |-> posts,
      viewsPerPost |-> avgReach, forwardsPerPost |-> 0, mentionsPerPost |-> 0,
      category |-> category, verified |-> verified, language |-> "unknown" ]

\* bundles handed to calculateQualityScore
ScoreBundles ==
    { Bundle(s, 0, r, e, ci, err, 10, cat, v) :
        s   \in {0, 1, 2, 1000, 100000, 150000},
        r   \in {0, 1, 50, 100, 3000},
        e   \in {0, 1, 100, 300, 1501},
        ci  \in {0, 1, 100, 320},
        err \in {0, 500, 501, 10000, 20000, 25000},
        cat \in {"tech", "entertainment", "business", "sports"},
        v   \in BOOLEAN }

\* overall scores handed to generateRecommendations and estimateAdPrice
Overalls ==
    {0, 1, 50, 1091, 4999, 5000, 6773, 6999, 7000, 8999, 9000, 9999, 10000}

Score(overall) ==
    [ overall   |-> overall,
      breakdown |-> [subscribers |-> 0, reach |-> 0, engagement |-> 0, ci |-> 0],
      modifiers |-> [category |-> 10, verified |-> 10, err |-> 20000] ]

\* bundles handed to generateRecommendations
RecommendationBundles ==
    { Bundle(1000, 0, r, e, 0, err, posts, "unknown", FALSE) :
        r     \in {0, 1999, 2000},
        e     \in {0, 499, 500},
        err   \in {0, 500, 501, 1000, 1001},
        posts \in {10, 50, 51} }

\* bundles handed to estimateAdPrice
PriceBundles ==
    { Bundle(s, a, 0, e, 0, 0, 10, cat, v) :
        s   \in {0, 999, 1000, 10000, 10001, 50000, 50001, 100000, 100001},
        a   \in {0, 15000},
        e   \in {0, 299, 300, 1000, 1001, 1500, 1501},
        cat \in {"tech", "entertainment", "business", "sports"},
        v   \in BOOLEAN }

\* the channels a batch is made of: two that tie at the top score, a weak
\* one, one in between, an empty one, a failed lookup and a faulty record
BatchPool ==
    { [info |-> Channel("top1", 50000, 15000, 3200, 2000, "tech", TRUE),
       stats |-> NULL],
      [info |-> Channel("top2", 150000, 15000, 0, 0, "news", FALSE),
       stats |-> [period |-> 7, posts_count |-> 14]],
      [info |-> Channel("weak", 1, 0, 1, 0, "news", FALSE), stats |-> NULL],
      [info |-> Channel("mid", 2, 0, 0, 100000, "entertainment", FALSE),
       stats |-> NULL],
      [info |-> Channel("zero", 0, 0, 0, 0, "tech", FALSE), stats |-> NULL],
      [info |-> NULL, stats |-> NULL],
      [info |-> [username |-> "bad", participants_count |-> 1000,
                 fault |-> "score"],
       stats |-> NULL] }

\* posting frequencies, in tenths, on and on either side of every band edge
PostsPerDayInputs == {0, 1, 2, 3, 4, 5, 9, 10, 11, 20, 29, 30, 31, 40, 2000}

\* analysis results, successes and failures, as analyzeChannel returns them
AnalysisResults == { analyzeChannel(c.info, c.stats).value : c \in BatchPool }

\* the subscriber counts handed to validateAnalysisData
CountInputs ==
    {Num(-1), Num(0), Num(1000), NotANumber, Str("1000"), NullValue}

\* channel data handed to validateAnalysisData: missing, without a name,
\* with an empty name, without a count and with every kind of count
ValidationInputs ==
    {NULL}
    \cup { [title |-> "t", participants_count |-> c] : c \in CountInputs }
    \cup { [username |-> u, participants_count |-> c] :
             u \in {"", "a"}, c \in CountInputs }
    \cup { [username |-> u] : u \in {"", "a"} }

\* bundles handed to calculateEngagementMetrics: no subscribers, no views,
\* forwards and mentions without views, ratios that need rounding
EngagementBundles ==
    { [Bundle(s, 0, 0, 0, 0, 0, p, "tech", FALSE)
         EXCEPT !.viewsPerPost = v, !.forwardsPerPost = f,
                !.mentionsPerPost = m] :
        s \in {0, 1, 3, 1000},
        v \in {0, 1, 7, 1200},
        f \in {0, 1, 70},
        m \in {0, 2, 40},
        p \in {0, 10, 40} }

\* engagement metrics handed to calculateViralPotential: every threshold of
\* every category, and the value just above it
ViralInputs ==
    { [ views    |-> [total |-> 0, perSubscriber |-> v],
        forwards |-> [total |-> 0, rate |-> f],
        mentions |-> [total |-> 0, rate |-> m],
        activity |-> [postsPerDay |-> 10, consistency |-> c] ] :
        f \in {0, 100, 101, 200, 201, 500, 501},
        m \in {0, 50, 51, 100, 101, 300, 301},
        v \in {0, 8000, 8001, 10000, 10001, 12000, 12001},
        c \in {"excellent", "good", "average", "too_frequent", "poor"} }

RECURSIVE SeqsUpTo(_, _)
SeqsUpTo(S, n) ==
    IF n = 0 THEN {<<>>}
    ELSE LET shorter == SeqsUpTo(S, n - 1)
         IN  shorter \cup {Append(q, x) : q \in shorter, x \in S}

Batches == SeqsUpTo(BatchPool, MaxBatch)

\* the result lists handed to generateExportData
ResultLists == SeqsUpTo(AnalysisResults, MaxBatch)

-----------------------------------------------------------------------------
(* TGStatAPI.makeRequest *)

\* this.maxRetries
MaxRetries == 3

\* an Error object; messages are named rather than spelled out
Error(name, message) == [name |-> name, message |-> message]

\* error.message.includes('fetch')
MentionsFetch(message) == message = "failed_to_fetch"

\* error.message.includes('API key' in Russian): the client's own two
\* messages about the key, and a server error text that speaks of it
MentionsApiKey(message) ==
    message \in {"api_key_not_set", "invalid_or_expired_api_key",
                 "server_text_about_api_key"}

\* what one fetch, and the parsing of its body, can come to: a response with
\* a status, for 200 a body (parsed data, data with ok === false and maybe an
\* error text, or no JSON at all), or a rejection of fetch itself
FetchOutcomes ==
    { [kind |-> "response", status |-> 200, body |-> "data"],
      [kind |-> "response", status |-> 200, body |-> "not_ok"],
      [kind |-> "response", status |-> 200, body |-> "not_ok",
       error |-> "server_text"],
      [kind |-> "response", status |-> 200, body |-> "not_ok",
       error |-> "server_text_about_api_key"],
      [kind |-> "response", status |-> 200, body |-> "not_json"],
      [kind |-> "response", status |-> 429],
      [kind |-> "response", status |-> 401],
      [kind |-> "response", status |-> 403],
      [kind |-> "response", status |-> 404],
      [kind |-> "response", status |-> 500],
      [kind |-> "rejected", error |-> Error("TypeError", "failed_to_fetch")],
      [kind |-> "rejected", error |-> Error("TypeError", "load_failed")],
      [kind |-> "rejected", error |-> Error("AbortError", "aborted")] }

\* how a block of makeRequest ends
ReturnData     == [do |-> "return"]
RetryAfter(ms) == [do |-> "retry", delay |-> ms]
Throw(error)   == [do |-> "throw", error |-> error]

\* the try block once fetch has settled
TryBlock(outcome, retryCount) ==
    IF outcome.kind = "rejected" THEN Throw(outcome.error)
    ELSE IF outcome.status # 200
    THEN IF outcome.status = 429 /\ retryCount < MaxRetries
         THEN RetryAfter(2^retryCount * 2000)
         ELSE IF outcome.status = 401
         THEN Throw(Error("Error", "invalid_or_expired_api_key"))
         ELSE IF outcome.status = 403
         THEN Throw(Error("Error", "access_denied_check_api_limits"))
         ELSE IF outcome.status = 404
         THEN Throw(Error("Error", "resource_not_found"))
         ELSE Throw(Error("Error", "http_status"))
    ELSE IF outcome.body = "not_json"
    THEN Throw(Error("SyntaxError", "unexpected_token"))
    ELSE IF outcome.body = "not_ok"
    THEN Throw(Error("Error", StrOr(outcome, "error", "api_error")))
    ELSE ReturnData

\* CatchBlock retrying while retryCount <= maxRetries
CatchBlock_RetryAtMax(error, retryCount) ==
    IF error.name = "TypeError" /\ MentionsFetch(error.message)
    THEN Throw(Error("Error", "network_error"))
    ELSE IF retryCount <= MaxRetries /\ ~MentionsApiKey(error.message)
    THEN RetryAfter(2^retryCount * 1000)
    ELSE Throw(error)

\* the catch block
CatchBlock(error, retryCount) ==
    IF error.name = "TypeError" /\ MentionsFetch(error.message)
    THEN Throw(Error("Error", "network_error"))
    ELSE IF retryCount < MaxRetries /\ ~MentionsApiKey(error.message)
    THEN RetryAfter(2^retryCount * 1000)
    ELSE Throw(error)

\* what makeRequest does with a settled fetch.  The recursive call is
\* returned, not awaited, so its rejection does not come back to this catch.
AfterFetch(outcome, retryCount) ==
    LET tried == TryBlock(outcome, retryCount)
    IN  IF tried.do = "throw" THEN CatchBlock(tried.error, retryCount)
        ELSE tried

NoRequest ==
    [pc |-> "none", retryCount |-> 0, fetches |-> 0, seen |-> <<>>,
     delay |-> 0, error |-> NULL]

\* an invocation makeRequest(endpoint, retryCount) up to its first await: it
\* rejects when no key is set, else waits for the rate-limit delay
Enter(req, retryCount) ==
    IF apiKey = ""
    THEN [req EXCEPT !.pc = "rejected", !.retryCount = retryCount,
                     !.error = Error("Error", "api_key_not_set")]
    ELSE [req EXCEPT !.pc = "delay", !.retryCount = retryCount]

-----------------------------------------------------------------------------
(* TGStatAPI.batchAnalyzeChannels *)

\* bound on the number of usernames in one batch
MaxUsernames == 2

Usernames == {"a", "b"}

\* what `await this.getChannelInfo(username)` gives: a success record, a
\* failure record, or (a username that is no string) a rejection
InfoOutcomes ==
    { [success |-> TRUE, data |-> "info"],
      [success |-> FALSE, error |-> "not_found", data |-> NULL],
      [rejected |-> TRUE, message |-> "replace_is_not_a_function"] }

\* what `await this.getChannelStats(username)` gives
StatsOutcomes ==
    { [success |-> TRUE, data |-> "stats"],
      [success |-> FALSE, error |-> "unavailable", data |-> NULL] }

\* onProgress: null, or a function; a call of the function returns or throws
Callbacks == {"null", "function"}
CallbackBehaviours == {"returns", "throws"}

BatchEntry(username, success, info, stats, error) ==
    [username |-> username, success |-> success, info |-> info,
     stats |-> stats, error |-> error]

\* one iteration of the loop: the entries it pushes on `results`
Iteration(username, onProgress, info, stats, behaviour) ==
    IF Has(info, "rejected")
    THEN \* the await throws before anything is pushed
         <<BatchEntry(username, FALSE, NULL, NULL, info.message)>>
    ELSE LET pushed ==
                 IF info.success
                 THEN BatchEntry(username, TRUE, info.data,
                                 IF stats.success THEN stats.data ELSE NULL,
                                 NULL)
                 ELSE BatchEntry(username, FALSE, NULL, NULL, info.error)
         IN  IF onProgress = "function" /\ behaviour = "throws"
             THEN \* the catch block pushes as well
                  <<pushed,
                    BatchEntry(username, FALSE, NULL, NULL, "callback_error")>>
             ELSE <<pushed>>

NoBatch ==
    [pc |-> "none", usernames |-> <<>>, onProgress |-> "null", i |-> 0,
     results |-> <<>>, progress |-> <<>>]

-----------------------------------------------------------------------------
(* TGTrafficStorage.addAnalysisResult *)

\* results.splice(100): the length the list is cut to
MaxStoredResults == 100

\* bound on the number of results added
MaxAdds == 102

\* bound on the number of added results that bring their own id
MaxOwnIds == 2

\* this.storageKeys.ANALYSIS_RESULTS
ANALYSIS_RESULTS == "tg_traffic_analysis_results"

\* JSON.stringify and JSON.parse, on lists of records of numbers and strings
Stringify(value) == [json |-> value]
Parse(item) == item.json

\* getItem(key, defaultValue)
getItem(key, defaultValue) ==
    IF key \notin DOMAIN localStorage THEN defaultValue
    ELSE Parse(localStorage[key])

\* localStorage after setItem(key, value) when the write goes through
WithItem(key, value) ==
    [k \in DOMAIN localStorage \cup {key} |->
        IF k = key THEN Stringify(value) ELSE localStorage[k]]

getAnalysisResults == getItem(ANALYSIS_RESULTS, <<>>)

\* this.generateId() and new Date().toISOString() at the n-th addition
generateId(n) == <<"generated", n>>
Now(n) == <<"time", n>>

\* { ...result, id: result.id || generateId(), timestamp: ... }
WithId(result, n) ==
    [f \in DOMAIN result \cup {"id", "timestamp"} |->
        IF f = "id" THEN (IF Has(result, "id") THEN result.id ELSE generateId(n))
        ELSE IF f = "timestamp"
        THEN (IF Has(result, "timestamp") THEN result.timestamp ELSE Now(n))
        ELSE result[f]]

\* results.unshift(result)
Unshift(results, result) == <<result>> \o results

\* Splice cutting from the front: the latest entries go
Splice_DropsLatest(results) ==
    IF Len(results) > MaxStoredResults
    THEN SubSeq(results, Len(results) - MaxStoredResults + 1, Len(results))
    ELSE results

\* results.splice(100) when results.length > 100
Splice(results) ==
    IF Len(results) > MaxStoredResults
    THEN SubSeq(results, 1, MaxStoredResults)
    ELSE results

\* the list addAnalysisResult hands to setAnalysisResults
addAnalysisResult(result, n) ==
    Splice(Unshift(getAnalysisResults, WithId(result, n)))

\* the n-th result handed to addAnalysisResult: an analysis without an id,
\* or one that brings its own id and timestamp
ResultsToAdd(n) ==
    { [channel |-> n] }
    \cup (IF n <= MaxOwnIds
          THEN { [channel |-> n, id |-> <<"own", n>>, timestamp |-> <<"time", 0>>] }
          ELSE {})

----------------------------------------------------------------------------
(* The analyzer: one action per method call *)

Init ==
    /\ categoryMultipliers = InitCategoryMultipliers
    /\ qualityThresholds = InitQualityThresholds
    /\ op = "idle"
    /\ passed = <<>>
    /\ args = <<>>
    /\ ret = Returned(<<>>)
    /\ apiKey = ""
    /\ request = NoRequest
    /\ batch = NoBatch
    /\ localStorage = [k \in {} |-> Stringify(<<>>)]
    /\ added = <<>>

\* what a call of the analyzer leaves alone
Frame ==
    UNCHANGED <<categoryMultipliers, qualityThresholds, apiKey, request, batch,
                localStorage, added>>

\* ArgumentsAfter with compareChannels sorting the array it was given
ArgumentsAfter_SortsInput(method, arguments) ==
    IF method = "compareChannels" /\ ~compareChannels(arguments[1]).raised
    THEN LET ranked == compareChannels(arguments[1]).value.channels
         IN  << [ i \in 1..Len(ranked) |->
                    CHOOSE c \in {arguments[1][j] : j \in 1..Len(ranked)} :
                        c.info.username = ranked[i].channel.username ] >>
    ELSE arguments

\* the caller's argument objects once the call is over.  No method assigns
\* to a property of an argument; compareChannels sorts and ranks the array
\* and the records that map() and the spread made, generateExportData fills
\* an array of its own.
ArgumentsAfter(method, arguments) == arguments

\* the caller has taken the result (or caught the error) of the last call
Idle == op = "idle"

TakeResult ==
    /\ ~Idle
    /\ op' = "idle"
    /\ passed' = <<>>
    /\ args' = <<>>
    /\ ret' = Returned(<<>>)
    /\ Frame

CallAnalyzeChannel ==
    /\ Idle
    /\ \E channelData \in ChannelInputs, statsData \in StatsInputs :
        /\ op' = "analyzeChannel"
        /\ passed' = <<channelData, statsData>>
        /\ args' = ArgumentsAfter("analyzeChannel", <<channelData, statsData>>)
        /\ ret' = analyzeChannel(channelData, statsData)
        /\ Frame

CallCalculateQualityScore ==
    /\ Idle
    /\ \E metrics \in ScoreBundles :
        /\ op' = "calculateQualityScore"
        /\ passed' = <<metrics>>
        /\ args' = ArgumentsAfter("calculateQualityScore", <<metrics>>)
        /\ ret' = Returned(calculateQualityScore(metrics))
        /\ Frame

CallGenerateRecommendations ==
    /\ Idle
    /\ \E metrics \in RecommendationBundles, overall \in Overalls :
        /\ op' = "generateRecommendations"
        /\ passed' = <<metrics, Score(overall)>>
        /\ args' = ArgumentsAfter("generateRecommendations", <<metrics, Score(overall)>>)
        /\ ret' = Returned(generateRecommendations(metrics, Score(overall)))
        /\ Frame

CallEstimateAdPrice ==
    /\ Idle
    /\ \E metrics \in PriceBundles, overall \in Overalls :
        /\ op' = "estimateAdPrice"
        /\ passed' = <<metrics, Score(overall)>>
        /\ args' = ArgumentsAfter("estimateAdPrice", <<metrics, Score(overall)>>)
        /\ ret' = Returned(estimateAdPrice(metrics, Score(overall)))
        /\ Frame

CallCompareChannels ==
    /\ Idle
    /\ \E channelsData \in Batches :
        /\ op' = "compareChannels"
        /\ passed' = <<channelsData>>
        /\ args' = ArgumentsAfter("compareChannels", <<channelsData>>)
        /\ ret' = compareChannels(channelsData)
        /\ Frame

CallCalculateConsistencyScore ==
    /\ Idle
    /\ \E postsPerDay \in PostsPerDayInputs :
        /\ op' = "calculateConsistencyScore"
        /\ passed' = <<postsPerDay>>
        /\ args' = ArgumentsAfter("calculateConsistencyScore", <<postsPerDay>>)
        /\ ret' = Returned(calculateConsistencyScore(postsPerDay))
        /\ Frame

CallGenerateExportData ==
    /\ Idle
    /\ \E analysisResults \in ResultLists :
        /\ op' = "generateExportData"
        /\ passed' = <<analysisResults>>
        /\ args' = ArgumentsAfter("generateExportData", <<analysisResults>>)
        /\ ret' = Returned(generateExportData(analysisResults))
        /\ Frame

CallValidateAnalysisData ==
    /\ Idle
    /\ \E channelData \in ValidationInputs :
        /\ op' = "validateAnalysisData"
        /\ passed' = <<channelData>>
        /\ args' = ArgumentsAfter("validateAnalysisData", <<channelData>>)
        /\ ret' = validateAnalysisData(channelData)
        /\ Frame

CallCalculateEngagementMetrics ==
    /\ Idle
    /\ \E metrics \in EngagementBundles :
        /\ op' = "calculateEngagementMetrics"
        /\ passed' = <<metrics>>
        /\ args' = ArgumentsAfter("calculateEngagementMetrics", <<metrics>>)
        /\ ret' = Returned(calculateEngagementMetrics(metrics))
        /\ Frame

CallCalculateViralPotential ==
    /\ Idle
    /\ \E engagementMetrics \in ViralInputs :
        /\ op' = "calculateViralPotential"
        /\ passed' = <<engagementMetrics>>
        /\ args' = ArgumentsAfter("calculateViralPotential", <<engagementMetrics>>)
        /\ ret' = Returned(calculateViralPotential(engagementMetrics))
        /\ Frame

Next ==
    \/ CallAnalyzeChannel
    \/ CallCalculateViralPotential
    \/ CallCalculateEngagementMetrics
    \/ CallValidateAnalysisData
    \/ CallGenerateExportData
    \/ CallCalculateConsistencyScore
    \/ CallCalculateQualityScore
    \/ CallGenerateRecommendations
    \/ CallEstimateAdPrice
    \/ CallCompareChannels
    \/ TakeResult

Spec == Init /\ [][Next]_vars

-----------------------------------------------------------------------------
(* The API client: makeRequest, one action per step between two awaits *)

AnalyzerUnchanged ==
    UNCHANGED <<categoryMultipliers, qualityThresholds, op, passed, args, ret>>

StorageUnchanged == UNCHANGED <<localStorage, added>>

\* setApiKey(apiKey), at any time
SetApiKey ==
    /\ \E key \in {"", "key"} : apiKey' = key
    /\ UNCHANGED <<request, batch>>
    /\ AnalyzerUnchanged /\ StorageUnchanged

\* makeRequest(endpoint): retryCount takes its default 0
CallMakeRequest ==
    /\ request.pc = "none"
    /\ request' = Enter(NoRequest, 0)
    /\ UNCHANGED <<apiKey, batch>>
    /\ AnalyzerUnchanged /\ StorageUnchanged

\* the rate-limit delay is over: fetch is called
IssueFetch ==
    /\ request.pc = "delay"
    /\ request' = [request EXCEPT !.pc = "fetch", !.fetches = @ + 1]
    /\ UNCHANGED <<apiKey, batch>>
    /\ AnalyzerUnchanged /\ StorageUnchanged

\* fetch settles: the call returns the data, schedules a retry, or rejects
SettleFetch ==
    /\ request.pc = "fetch"
    /\ \E outcome \in FetchOutcomes :
        LET after == AfterFetch(outcome, request.retryCount)
            seen  == Append(request.seen, outcome)
        IN  request' =
              CASE after.do = "return" ->
                     [request EXCEPT !.pc = "resolved", !.seen = seen]
                [] after.do = "retry" ->
                     [request EXCEPT !.pc = "backoff", !.seen = seen,
                                     !.delay = after.delay]
                [] after.do = "throw" ->
                     [request EXCEPT !.pc = "rejected", !.seen = seen,
                                     !.error = after.error]
    /\ UNCHANGED <<apiKey, batch>>
    /\ AnalyzerUnchanged /\ StorageUnchanged

\* the backoff delay is over: makeRequest(endpoint, retryCount + 1)
Retry ==
    /\ request.pc = "backoff"
    /\ request' = Enter(request, request.retryCount + 1)
    /\ UNCHANGED <<apiKey, batch>>
    /\ AnalyzerUnchanged /\ StorageUnchanged

\* the caller has the data or the error
TakeSettled ==
    /\ request.pc \in {"resolved", "rejected"}
    /\ request' = NoRequest
    /\ UNCHANGED <<apiKey, batch>>
    /\ AnalyzerUnchanged /\ StorageUnchanged

NextRequest ==
    \/ SetApiKey
    \/ CallMakeRequest
    \/ IssueFetch
    \/ SettleFetch
    \/ Retry
    \/ TakeSettled

\* timers fire and a fetch settles, one way or the other
SpecRequest ==
    /\ Init /\ [][NextRequest]_vars
    /\ WF_vars(IssueFetch) /\ WF_vars(SettleFetch) /\ WF_vars(Retry)

-----------------------------------------------------------------------------
(* The API client: batchAnalyzeChannels *)

CallBatchAnalyzeChannels ==
    /\ batch.pc = "none"
    /\ \E channelUsernames \in SeqsUpTo(Usernames, MaxUsernames),
          onProgress \in Callbacks :
        batch' = [NoBatch EXCEPT !.pc = "running",
                                 !.usernames = channelUsernames,
                                 !.onProgress = onProgress]
    /\ UNCHANGED <<apiKey, request>>
    /\ AnalyzerUnchanged /\ StorageUnchanged

\* one pass through the loop body
BatchIteration ==
    /\ batch.pc = "running"
    /\ batch.i < Len(batch.usernames)
    /\ \E info \in InfoOutcomes, stats \in StatsOutcomes,
          behaviour \in CallbackBehaviours :
        LET username == batch.usernames[batch.i + 1]
            called   == batch.onProgress = "function" /\ ~Has(info, "rejected")
        IN  batch' =
              [batch EXCEPT
                 !.i = @ + 1,
                 !.results = @ \o Iteration(username, batch.onProgress, info,
                                            stats, behaviour),
                 !.progress = IF called THEN Append(@, batch.i + 1) ELSE @]
    /\ UNCHANGED <<apiKey, request>>
    /\ AnalyzerUnchanged /\ StorageUnchanged

\* the loop is over: return results
BatchReturn ==
    /\ batch.pc = "running"
    /\ batch.i = Len(batch.usernames)
    /\ batch' = [batch EXCEPT !.pc = "returned"]
    /\ UNCHANGED <<apiKey, request>>
    /\ AnalyzerUnchanged /\ StorageUnchanged

TakeBatch ==
    /\ batch.pc = "returned"
    /\ batch' = NoBatch
    /\ UNCHANGED <<apiKey, request>>
    /\ AnalyzerUnchanged /\ StorageUnchanged

NextBatch ==
    \/ CallBatchAnalyzeChannels
    \/ BatchIteration
    \/ BatchReturn
    \/ TakeBatch

SpecBatch == Init /\ [][NextBatch]_vars

-----------------------------------------------------------------------------
(* The storage: addAnalysisResult *)

\* addAnalysisResult(result); the write may fail (quota), and then nothing
\* is stored and null is returned
CallAddAnalysisResult ==
    /\ Idle
    /\ Len(added) < MaxAdds
    /\ \E result \in ResultsToAdd(Len(added) + 1), written \in BOOLEAN :
        LET n            == Len(added) + 1
            resultWithId == WithId(result, n)
        IN  /\ op' = "addAnalysisResult"
            /\ passed' = <<result>>
            /\ args' = ArgumentsAfter("addAnalysisResult", <<result>>)
            /\ IF written
               THEN /\ localStorage' =
                         WithItem(ANALYSIS_RESULTS, addAnalysisResult(result, n))
                    /\ added' = Append(added, resultWithId)
                    /\ ret' = Returned(resultWithId)
               ELSE /\ UNCHANGED <<localStorage, added>>
                    /\ ret' = Returned(NULL)
    /\ UNCHANGED <<categoryMultipliers, qualityThresholds, apiKey, request, batch>>

NextStorage ==
    \/ CallAddAnalysisResult
    \/ TakeResult

SpecStorage == Init /\ [][NextStorage]_vars

----------------------------------------------------------------------------
(* Properties *)

\* the quality score a call produced: calculateQualityScore's result, or the
\* qualityScore of a success record of analyzeChannel
ScoreReturned ==
    \/ op = "calculateQualityScore"
    \/ op = "analyzeChannel" /\ ~ret.raised /\ ret.value.success

TheScore  == IF op = "analyzeChannel" THEN ret.value.qualityScore ELSE ret.value
TheBundle == IF op = "analyzeChannel" THEN ret.value.metrics ELSE args[1]

\* the price estimate a call produced, likewise
PriceReturned ==
    \/ op = "estimateAdPrice"
    \/ op = "analyzeChannel" /\ ~ret.raised /\ ret.value.success

ThePrice == IF op = "analyzeChannel" THEN ret.value.priceEstimate ELSE ret.value

\* the recommendations a call produced and the overall score they were made for
RecommendationsReturned ==
    \/ op = "generateRecommendations"
    \/ op = "analyzeChannel" /\ ~ret.raised /\ ret.value.success

TheRecommendations ==
    IF op = "analyzeChannel" THEN ret.value.recommendations ELSE ret.value
TheirOverall ==
    IF op = "analyzeChannel" THEN ret.value.qualityScore.overall
    ELSE args[2].overall

C2_AllZeroScoresZero ==
    (/\ ScoreReturned
     /\ TheBundle.subscribers = 0
     /\ TheBundle.reachPercentage = 0
     /\ TheBundle.engagementRate = 0
     /\ TheBundle.ciIndex = 0)
    => /\ ~ret.raised
       /\ TheScore.overall = 0
       /\ TheScore.breakdown =
            [subscribers |-> 0, reach |-> 0, engagement |-> 0, ci |-> 0]

\* an all-zero bundle that is verified, in a boosted category, with a large ERR%
C2_Witness ==
    /\ op = "calculateQualityScore"
    /\ args[1].subscribers = 0 /\ args[1].reachPercentage = 0
    /\ args[1].engagementRate = 0 /\ args[1].ciIndex = 0
    /\ args[1].verified /\ args[1].category = "business"
    /\ args[1].errPercent = 25000
    /\ ret.value.overall = 0

\* every channel of the batch analyses successfully
AllAnalysed(channelsData) ==
    \A i \in 1..Len(channelsData) : FaultStep(channelsData[i].info) = "none"

\* C3: for a batch in which every channel analyses successfully,
\* compareChannels returns the channels sorted by overall score descending,
\* channels with equal scores in their input order, and rank i at position i.
C3_SortedStableRanked ==
    (op = "compareChannels" /\ AllAnalysed(args[1])) =>
        /\ ~ret.raised
        /\ LET in  == args[1]
               out == ret.value.channels
               n   == Len(in)
           IN  /\ Len(out) = n
               /\ \A i \in 1..n : out[i].rank = i
               /\ \A i, j \in 1..n :
                    i < j => out[i].qualityScore.overall
                               >= out[j].qualityScore.overall
               /\ \E p \in Permutations(1..n) :
                    /\ \A i \in 1..n :
                         out[i].channel.username = in[p[i]].info.username
                    /\ \A i, j \in 1..n :
                         (/\ i < j
                          /\ out[i].qualityScore.overall
                               = out[j].qualityScore.overall)
                         => p[i] < p[j]

\* a weak channel followed by two that tie at the top: the tie keeps its order
C3_Witness ==
    /\ op = "compareChannels"
    /\ ~ret.raised
    /\ Len(args[1]) = 3
    /\ args[1][1].info.username = "weak"
    /\ args[1][2].info.username = "top2"
    /\ args[1][3].info.username = "top1"
    /\ ret.value.channels[1].channel.username = "top2"
    /\ ret.value.channels[2].channel.username = "top1"
    /\ ret.value.channels[3].channel.username = "weak"
    /\ ret.value.channels[1].qualityScore.overall
         = ret.value.channels[2].qualityScore.overall

\* the sum of f[i] over the i in S
RECURSIVE SumOver(_, _)
SumOver(f, S) ==
    IF S = {} THEN 0
    ELSE LET i == CHOOSE i \in S : TRUE IN f[i] + SumOver(f, S \ {i})

\* C4: for a batch in which at least one channel's analysis yields a failure
\* result, compareChannels still returns a report: one entry per input
\* channel, the summary averages taken over the successful results only, and
\* categoryStats counting only the successful results.
C4_FailuresAreNotFatal ==
    (op = "compareChannels" /\ ~AllAnalysed(args[1])) =>
        /\ ~ret.raised
        /\ Len(ret.value.channels) = Len(args[1])
        /\ LET out  == ret.value.channels
               good == {i \in 1..Len(out) : out[i].success}
               k    == Cardinality(good)
               sum  == ret.value.summary
           IN  /\ k > 0 =>
                    /\ sum.avgQualityScore = RoundDiv(
                         SumOver([i \in good |-> out[i].qualityScore.overall],
                                 good), k)
                    /\ sum.avgSubscribers = RoundDiv(
                         SumOver([i \in good |-> out[i].metrics.subscribers],
                                 good), k)
                    /\ sum.avgReach = RoundDiv(
                         SumOver([i \in good |-> out[i].metrics.reachPercentage],
                                 good), k)
               /\ SumOver([c \in DOMAIN sum.categoryStats |->
                             sum.categoryStats[c].count],
                          DOMAIN sum.categoryStats) = k

\* C5: analyzeChannel never raises: a fault in any of the five steps yields a
\* record with success = false, an error description, and channel.username
\* when channel data was given (channel = null when it was not).
C5_AnalyzeNeverRaises ==
    op = "analyzeChannel" =>
        /\ ~ret.raised
        /\ FaultStep(args[1]) # "none" =>
             /\ ret.value.success = FALSE
             /\ Has(ret.value, "error") /\ ret.value.error # ""
             /\ IF IsNull(args[1]) THEN ret.value.channel = NULL
                ELSE ret.value.channel.username = args[1].username

\* a fault in the last step, on given channel data, came back as a failure
C5_Witness ==
    /\ op = "analyzeChannel"
    /\ FaultStep(args[1]) = "price"
    /\ ~ret.raised
    /\ ret.value.success = FALSE
    /\ ret.value.channel.username = "f"

SuccessFields ==
    {"success", "channel", "metrics", "qualityScore", "engagementMetrics",
     "recommendations", "priceEstimate", "analysisTimestamp"}

FailureFields == {"success", "error", "channel"}

\* C6: every value analyzeChannel returns is either a success record
\* (success = true, the six analysis fields, no error) or a failure record
\* (success = false, error and identity only), never a mix.
C6_TwoShapes ==
    (op = "analyzeChannel" /\ ~ret.raised) =>
        \/ /\ ret.value.success = TRUE
           /\ DOMAIN ret.value = SuccessFields
        \/ /\ ret.value.success = FALSE
           /\ DOMAIN ret.value = FailureFields
           /\ \/ ret.value.channel = NULL
              \/ DOMAIN ret.value.channel = {"username"}

\* a success record for a channel given with period stats
C6_Witness ==
    /\ op = "analyzeChannel"
    /\ ~IsNull(args[1]) /\ ~IsNull(args[2])
    /\ ret.value.success
    /\ DOMAIN ret.value = SuccessFields
    /\ Len(ret.value.recommendations) >= 2

\* C7: generateRecommendations returns at least one entry, and the first is
\* the verdict: success when overall >= 90, info when 70 <= overall < 90,
\* warning otherwise.
C7_VerdictFirst ==
    RecommendationsReturned =>
        /\ Len(TheRecommendations) >= 1
        /\ TheRecommendations[1].type =
             (IF TheirOverall >= 9000 THEN "success"
              ELSE IF TheirOverall >= 7000 THEN "info"
              ELSE "warning")
        /\ TheRecommendations[1].rule
             \in {"excellent", "good", "needs_review"}

\* a score of exactly 90 with all four findings: five entries, verdict first
C7_Witness ==
    /\ op = "generateRecommendations"
    /\ args[2].overall = 9000
    /\ Len(ret.value) = 5
    /\ ret.value[1] = Recommendation("success", "excellent")

\* |a - b|
Dist(a, b) == IF a >= b THEN a - b ELSE b - a

C9_NoStatsFallbacks ==
    (op = "analyzeChannel" /\ FaultStep(args[1]) = "none" /\ IsNull(args[2])) =>
        /\ ~ret.raised
        /\ ret.value.success
        /\ LET m == ret.value.metrics
           IN  /\ m.postsPerDay = 10
               /\ m.viewsPerPost = m.avgReach
               /\ m.forwardsPerPost = 0
               /\ m.mentionsPerPost = 0
               /\ m.avgReach = (IF Has(args[1], "avg_post_reach")
                                THEN args[1].avg_post_reach ELSE 0)
               /\ m.ciIndex = (IF Has(args[1], "ci_index")
                               THEN RoundDiv(args[1].ci_index, 10) ELSE 0)

\* a snapshot with a reach of 15000 and no stats: views per post are 15000
C9_Witness ==
    /\ op = "analyzeChannel"
    /\ IsNull(args[2])
    /\ ~IsNull(args[1])
    /\ Has(args[1], "avg_post_reach") /\ args[1].avg_post_reach = 15000
    /\ ret.value.success
    /\ ret.value.metrics.viewsPerPost = 15000
    /\ ret.value.metrics.postsPerDay = 10

\* C10: for non-negative inputs no numeric field of a successful
\* AnalysisResult is negative: the metrics bundle, the score and its
\* breakdown, the three modifiers, the engagement ratios, viral potential and
\* every price figure.
C10_NoNegativeField ==
    (op = "analyzeChannel" /\ ~ret.raised /\ ret.value.success) =>
        LET m == ret.value.metrics
            q == ret.value.qualityScore
            e == ret.value.engagementMetrics
            p == ret.value.priceEstimate
        IN  /\ \A f \in {"subscribers", "avgReach", "reachPercentage",
                         "engagementRate", "ciIndex", "errPercent",
                         "postsPerDay", "viewsPerPost", "forwardsPerPost",
                         "mentionsPerPost"} : m[f] >= 0
            /\ q.overall >= 0
            /\ \A f \in DOMAIN q.breakdown : q.breakdown[f] >= 0
            /\ \A f \in DOMAIN q.modifiers : q.modifiers[f] >= 0
            /\ e.views.total >= 0 /\ e.views.perSubscriber >= 0
            /\ e.forwards.total >= 0 /\ e.forwards.rate >= 0
            /\ e.mentions.total >= 0 /\ e.mentions.rate >= 0
            /\ e.activity.postsPerDay >= 0
            /\ e.viralPotential >= 0
            /\ p.cpm.min >= 0 /\ p.cpm.avg >= 0 /\ p.cpm.max >= 0
            /\ p.postPrice.estimated >= 0

\* analyzeChannel returned a success record for a channel with no
\* subscribers and no reach, engagement or citations
ZeroChannelAnalysed ==
    /\ op = "analyzeChannel" /\ ~ret.raised /\ ret.value.success
    /\ ret.value.metrics.subscribers = 0
    /\ ret.value.metrics.avgReach = 0
    /\ ret.value.metrics.reachPercentage = 0
    /\ ret.value.metrics.engagementRate = 0
    /\ ret.value.metrics.ciIndex = 0

\* the returned price range is the one derived from base CPM 100 with the
\* given subscriber-tier factor (tenths), the category multiplier, quality
\* multiplier 0.5 (overall 0), engagement-tier factor 0.8 (rate 0 < 3) and the
\* verified premium
ZeroChannelPriceWithTier(tier) ==
    LET m     == ret.value.metrics
        cpm   == ret.value.priceEstimate.cpm
        \* CPM in units of 10^-5 ruble
        cpmE5 == 100 * tier * CategoryMultiplier(m.category) * 5 * 8
                     * (IF m.verified THEN 12 ELSE 10)
    IN  /\ cpm.avg = RoundDiv(cpmE5, 100000)
        /\ cpm.min = RoundDiv(cpmE5 * 7, 1000000)
        /\ cpm.max = RoundDiv(cpmE5 * 13, 1000000)

ZeroChannelScoresZero ==
    /\ ret.value.qualityScore.overall = 0
    /\ ret.value.qualityScore.breakdown =
         [subscribers |-> 0, reach |-> 0, engagement |-> 0, ci |-> 0]

\* C11 (as stated): for a channel with subscribers = 0 and all other metrics
\* 0, the overall score is 0, all breakdown fields are 0, and the price range
\* is derived from base CPM 100 with subscriber-tier factor 1.0.
C11_ZeroChannelUnitTier ==
    ZeroChannelAnalysed =>
        ZeroChannelScoresZero /\ ZeroChannelPriceWithTier(10)

\* C11 (amended): for a channel with subscribers = 0 and all other metrics 0,
\* the overall score is 0, all breakdown fields are 0, and the price range is
\* derived from base CPM 100 with subscriber-tier factor 0.5: 0 subscribers
\* is below 1000, so the small-channel factor applies.
C11_ZeroChannelSmallTier ==
    ZeroChannelAnalysed =>
        ZeroChannelScoresZero /\ ZeroChannelPriceWithTier(5)

\* a verified tech channel with nothing: CPM 22 / 31 / 41
C11_Witness ==
    /\ ZeroChannelAnalysed
    /\ ret.value.metrics.category = "tech"
    /\ ret.value.metrics.verified
    /\ ret.value.priceEstimate.cpm.avg = 31
    /\ ret.value.priceEstimate.cpm.min = 22
    /\ ret.value.priceEstimate.cpm.max = 41

\* the consistency classes and their bands of postsPerDay (tenths)
ConsistencyClasses == {"excellent", "good", "average", "too_frequent", "poor"}

InBand(class, p) ==
    CASE class = "excellent"    -> 10 <= p /\ p <= 30
      [] class = "good"         -> 5 <= p /\ p < 10
      [] class = "average"      -> 2 <= p /\ p < 5
      [] class = "too_frequent" -> p > 30
      [] class = "poor"         -> p < 2

\* a posting frequency was classified, directly or within analyzeChannel
ConsistencyReturned ==
    \/ op = "calculateConsistencyScore"
    \/ op = "analyzeChannel" /\ ~ret.raised /\ ret.value.success

ThePostsPerDay ==
    IF op = "analyzeChannel" THEN ret.value.metrics.postsPerDay ELSE args[1]
TheConsistency ==
    IF op = "analyzeChannel"
    THEN ret.value.engagementMetrics.activity.consistency
    ELSE ret.value

\* C12: calculateConsistencyScore maps every postsPerDay >= 0 to exactly one
\* class: excellent for 1 <= p <= 3, good for 0.5 <= p < 1, average for
\* 0.2 <= p < 0.5, too_frequent for p > 3, poor for p < 0.2 (2 -> excellent,
\* 4 -> too_frequent, 0.3 -> average); the bands are disjoint and cover all
\* non-negative values.
C12_ConsistencyBands ==
    ConsistencyReturned =>
        /\ TheConsistency \in ConsistencyClasses
        /\ InBand(TheConsistency, ThePostsPerDay)
        /\ \A class \in ConsistencyClasses :
             InBand(class, ThePostsPerDay) => class = TheConsistency
        /\ ThePostsPerDay = 20 => TheConsistency = "excellent"
        /\ ThePostsPerDay = 40 => TheConsistency = "too_frequent"
        /\ ThePostsPerDay = 3 => TheConsistency = "average"

\* one post a day, the lower edge of the top band, is excellent
C12_Witness ==
    /\ op = "calculateConsistencyScore"
    /\ args[1] = 10
    /\ ret.value = "excellent"

\* the positions of the successful results of a list
Successes(analysisResults) ==
    {i \in 1..Len(analysisResults) : analysisResults[i].success}

\* C13: generateExportData returns exactly one row per result with
\* success = true, in input order, and no row for any failure result; the
\* number of rows equals the number of successful results in the input.
C13_OneRowPerSuccess ==
    op = "generateExportData" =>
        LET in   == args[1]
            rows == ret.value
        IN  /\ ~ret.raised
            /\ Len(rows) = Cardinality(Successes(in))
            \* each row is the row of a successful result, found at the
            \* position its rank names
            /\ \A k \in 1..Len(rows) :
                 /\ rows[k].rank \in Successes(in)
                 /\ rows[k].channel = "@" \o in[rows[k].rank].channel.username
                 /\ rows[k].subscribers = in[rows[k].rank].metrics.subscribers
            \* every successful result has its row
            /\ {rows[k].rank : k \in 1..Len(rows)} = Successes(in)
            \* rows follow the input order
            /\ \A j, k \in 1..Len(rows) : j < k => rows[j].rank < rows[k].rank

\* a failure between two successes: two rows, for positions 1 and 3
C13_Witness ==
    /\ op = "generateExportData"
    /\ Len(args[1]) = 3
    /\ args[1][1].success /\ args[1][1].channel.username = "weak"
    /\ ~args[1][2].success
    /\ args[1][3].success /\ args[1][3].channel.username = "top1"
    /\ Len(ret.value) = 2
    /\ ret.value[1].channel = "@weak" /\ ret.value[1].rank = 1
    /\ ret.value[2].channel = "@top1" /\ ret.value[2].rank = 3

\* A number in the model is a pair <<v, d>>: the value v / d.  The
\* denominators in use (1, 10, 100, 20000) divide one another.
SameNumber(a, b) ==
    LET lo == IF a[2] <= b[2] THEN a ELSE b
        hi == IF a[2] <= b[2] THEN b ELSE a
        k  == hi[2] \div lo[2]
    IN  hi[1] % k = 0 /\ hi[1] \div k = lo[1]

\* every numeric field of a success record's metrics bundle, quality score
\* and price estimate
NumericFields(result) ==
    LET m == result.metrics
        q == result.qualityScore
        p == result.priceEstimate
    IN  { <<m.subscribers, 1>>, <<m.avgReach, 1>>, <<m.reachPercentage, 100>>,
          <<m.engagementRate, 100>>, <<m.ciIndex, 100>>, <<m.errPercent, 100>>,
          <<m.postsPerDay, 10>>, <<m.viewsPerPost, 1>>,
          <<m.forwardsPerPost, 1>>, <<m.mentionsPerPost, 1>>,
          <<q.overall, 100>>,
          <<q.breakdown.subscribers, 100>>, <<q.breakdown.reach, 100>>,
          <<q.breakdown.engagement, 100>>, <<q.breakdown.ci, 100>>,
          <<q.modifiers.category, 10>>, <<q.modifiers.verified, 10>>,
          <<q.modifiers.err, 20000>>,
          <<p.cpm.min, 1>>, <<p.cpm.max, 1>>, <<p.cpm.avg, 1>>,
          <<p.postPrice.estimated, 1>>,
          <<p.factors.subscribers, 1>>, <<p.factors.quality, 100>>,
          <<p.factors.engagement, 100>> }

\* every number of an export row that is taken from its result
NumericColumns(row) ==
    { <<row.subscribers, 1>>, <<row.reachPercent, 100>>,
      <<row.engagementPercent, 100>>, <<row.ciIndex, 100>>,
      <<row.errPercent, 100>>, <<row.qualityScore, 100>>,
      <<row.cpmMin, 1>>, <<row.cpmMax, 1>>, <<row.cpmAvg, 1>>,
      <<row.postPrice, 1>>, <<row.postsPerDay, 10>>, <<row.viewsPerPost, 1>>,
      <<row.forwardsPerPost, 1>>, <<row.mentionsPerPost, 1>> }

\* C14: for every successful AnalysisResult, every numeric field of its
\* metrics bundle, quality score and price estimate can be read back from its
\* export row, under some column, with exactly the same value.
C14_ExportRoundTrip ==
    op = "generateExportData" =>
        \A k \in 1..Len(ret.value) :
            \A field \in NumericFields(args[1][ret.value[k].rank]) :
                \E column \in NumericColumns(ret.value[k]) :
                    SameNumber(field, column)

\* the channel data is missing, has no (or an empty) username, or a
\* participants_count that is not a number or is negative
Rejectable(channelData) ==
    \/ channelData = NULL
    \/ "username" \notin DOMAIN channelData
    \/ channelData.username = ""
    \/ "participants_count" \notin DOMAIN channelData
    \/ channelData.participants_count.type # "number"
    \/ /\ "num" \in DOMAIN channelData.participants_count
       /\ channelData.participants_count.num < 0

\* C15: validateAnalysisData raises an error when the channel data is
\* missing, when username is missing or empty, or when participants_count is
\* not numeric or is negative; for every other input it returns true.  It
\* never returns a partial result or false.
C15_ValidateRejectsOrTrue ==
    op = "validateAnalysisData" =>
        /\ Rejectable(args[1]) => ret.raised
        /\ ~Rejectable(args[1]) => ~ret.raised /\ ret.value = TRUE
        /\ ret.raised \/ ret.value = TRUE

\* a named channel with a negative subscriber count is rejected
C15_Witness ==
    /\ op = "validateAnalysisData"
    /\ args[1] = [username |-> "a", participants_count |-> Num(-1)]
    /\ ret.raised
    /\ ret.error = "bad subscriber count"

CappedErrPenalty(errPercent) ==
    IF errPercent <= 500 THEN 20000
    ELSE 20000 - (IF errPercent <= 10000 THEN errPercent ELSE 10000)

\* C17: the ERR modifier, both as applied to the score and as exposed in
\* modifiers.err, equals 1 when errPercent <= 5 and
\* 1 - min(errPercent, 100) / 100 * 0.5 when errPercent > 5; it lies in
\* [0.5, 1] for every errPercent >= 0, including values above 100.
C17_ErrModifierCapped ==
    ScoreReturned =>
        /\ TheScore.modifiers.err = CappedErrPenalty(TheBundle.errPercent)
        /\ ErrModifier(TheBundle) = CappedErrPenalty(TheBundle.errPercent)
        /\ TheScore.modifiers.err >= 10000
        /\ TheScore.modifiers.err <= 20000

\* C18: each breakdown field equals the capped sub-score of its factor and
\* never exceeds the factor's cap: breakdown.subscribers =
\* min(25, log10(subscribers) * 5) <= 25, breakdown.reach <= 30,
\* breakdown.engagement <= 25, breakdown.ci <= 20, for every subscriber count
\* and metric value (including subscribers above 100000).
C18_BreakdownCapped ==
    ScoreReturned =>
        LET b == TheScore.breakdown
            m == TheBundle
        IN  /\ b.subscribers = (IF m.subscribers > 0
                                THEN RoundDiv(SubscriberScoreE4(m), 100)
                                ELSE 0)
            /\ b.reach = RoundDiv(ReachScoreE4(m), 100)
            /\ b.engagement = RoundDiv(EngagementScoreE4(m), 100)
            /\ b.ci = RoundDiv(CiScoreE4(m), 100)
            /\ b.subscribers <= 2500
            /\ b.reach <= 3000
            /\ b.engagement <= 2500
            /\ b.ci <= 2000

\* the four factors of the score: the metric that drives each, its capped
\* sub-score (ten-thousandths of a point) and its weight (units of 0.05)
Factors == {"subscribers", "reach", "engagement", "ci"}

DrivingMetric(factor, m) ==
    CASE factor = "subscribers" -> m.subscribers
      [] factor = "reach"       -> m.reachPercentage
      [] factor = "engagement"  -> m.engagementRate
      [] factor = "ci"          -> m.ciIndex

SubScoreE4(factor, m) ==
    CASE factor = "subscribers" -> SubscriberScoreE4(m)
      [] factor = "reach"       -> ReachScoreE4(m)
      [] factor = "engagement"  -> EngagementScoreE4(m)
      [] factor = "ci"          -> CiScoreE4(m)

FactorWeight == [subscribers |-> 5, reach |-> 6, engagement |-> 5, ci |-> 4]

Included(m) == {factor \in Factors : DrivingMetric(factor, m) > 0}

\* clamp(M * sum(subscore * w) / sum(w) * 100, 0, 100) over the included
\* factors, in hundredths, with M the product of the three modifiers the
\* score exposes; 0 when no factor is included
PartialCreditScore(m, modifiers) ==
    LET inc  == Included(m)
        sum  == SumOver([f \in inc |-> SubScoreE4(f, m) * FactorWeight[f]], inc)
        w    == SumOver([f \in inc |-> FactorWeight[f]], inc)
        \* twice the score in hundredths, rounded down
        twice == MulShift6(sum * modifiers.category * modifiers.verified,
                           modifiers.err) \div w
        score == RoundHalf(twice)
    IN  IF inc = {} THEN 0
        ELSE IF score < 0 THEN 0
        ELSE IF score > 10000 THEN 10000
        ELSE score

MetricsReturned ==
    op = "analyzeChannel" /\ FaultStep(passed[1]) = "none"

\* the value of a numeric field of the snapshot, else of the stats, else 0,
\* where a field counts as given when it is present, whatever its value
FirstPresent(channelData, statsData, f) ==
    IF f \in DOMAIN channelData THEN channelData[f]
    ELSE IF statsData # NULL /\ f \in DOMAIN statsData THEN statsData[f]
    ELSE 0

\* the same, where a field counts as given when it is present and not 0
FirstNonZero(channelData, statsData, f) ==
    IF f \in DOMAIN channelData /\ channelData[f] # 0 THEN channelData[f]
    ELSE IF statsData # NULL /\ f \in DOMAIN statsData THEN statsData[f]
    ELSE 0

\* reachPercentage and engagementRate of the metrics bundle m are the ones
\* computed from its subscribers and avgReach and the citation index ci
\* (thousandths), rounded to 2 decimals
ReachAndEngagement(m, ci) ==
    /\ m.reachPercentage =
         (IF m.subscribers > 0
          THEN RoundDiv(m.avgReach * 10000, m.subscribers) ELSE 0)
    /\ m.engagementRate =
         (IF ci > 0 THEN RoundDiv(ci, 10)
          ELSE IF m.subscribers > 0
               THEN RoundDiv(m.avgReach * 8000, m.subscribers) ELSE 0)
    /\ (m.subscribers = 50000 /\ m.avgReach = 15000 /\ ci = 3200)
         => m.reachPercentage = 3000 /\ m.engagementRate = 320

\* C20 (as stated): reachPercentage = avgReach / subscribers * 100 when
\* subscribers > 0 and 0 otherwise, with avgReach taken from the snapshot if
\* present, else from stats, else 0; engagementRate = citation index when it
\* is > 0, else reachPercentage * 0.8; both rounded to 2 decimals.
C20_ReachFromSnapshotIfPresent ==
    MetricsReturned =>
        /\ ~ret.raised /\ ret.value.success
        /\ ret.value.metrics.avgReach =
             FirstPresent(passed[1], passed[2], "avg_post_reach")
        /\ ReachAndEngagement(ret.value.metrics,
             FirstNonZero(passed[1], passed[2], "ci_index"))

\* C20 (amended): the same, with avgReach taken from the snapshot if present
\* and not 0, else from stats, else 0.
C20_ReachFromSnapshotIfNonZero ==
    MetricsReturned =>
        /\ ~ret.raised /\ ret.value.success
        /\ ret.value.metrics.avgReach =
             FirstNonZero(passed[1], passed[2], "avg_post_reach")
        /\ ReachAndEngagement(ret.value.metrics,
             FirstNonZero(passed[1], passed[2], "ci_index"))

\* a snapshot whose reach is 0, with stats that carry a reach of 900:
\* avgReach is 900, and 900 / 1000 subscribers is 90%
C20_Witness ==
    /\ op = "analyzeChannel"
    /\ passed[2] # NULL
    /\ "avg_post_reach" \in DOMAIN passed[1] /\ passed[1].avg_post_reach = 0
    /\ "avg_post_reach" \in DOMAIN passed[2] /\ passed[2].avg_post_reach = 900
    /\ "participants_count" \in DOMAIN passed[1]
    /\ passed[1].participants_count = 1000
    /\ ret.value.success
    /\ ret.value.metrics.avgReach = 900
    /\ ret.value.metrics.reachPercentage = 9000

\* C21: whenever the period stats supply a posts count (including a supplied
\* count of 0), postsPerDay = postsCount / periodDays rounded to 1 decimal,
\* with periodDays defaulting to 7 when absent; postsPerDay defaults to 1
\* only when no posts count is supplied.
C21_PostsPerDayFromSuppliedCount ==
    MetricsReturned =>
        /\ ~ret.raised /\ ret.value.success
        /\ LET statsData == passed[2]
               supplied  == statsData # NULL /\ "posts_count" \in DOMAIN statsData
               period    == IF "period" \in DOMAIN statsData
                            THEN statsData.period ELSE 7
           IN  ret.value.metrics.postsPerDay =
                 (IF supplied THEN RoundDiv(statsData.posts_count * 10, period)
                  ELSE 10)

\* engagement metrics were computed, directly or within analyzeChannel
EngagementReturned ==
    \/ op = "calculateEngagementMetrics"
    \/ op = "analyzeChannel" /\ ~ret.raised /\ ret.value.success

TheEngagement ==
    IF op = "analyzeChannel" THEN ret.value.engagementMetrics ELSE ret.value
ItsBundle ==
    IF op = "analyzeChannel" THEN ret.value.metrics ELSE passed[1]

\* C22: calculateEngagementMetrics never divides by zero and never yields NaN
\* or Infinity: views.perSubscriber = viewsPerPost / subscribers rounded to 4
\* decimals, and 0 when subscribers = 0; forwards.rate = forwardsPerPost /
\* viewsPerPost * 100 and mentions.rate = mentionsPerPost / viewsPerPost *
\* 100, rounded to 2 decimals, and both 0 when viewsPerPost = 0.
C22_EngagementRatios ==
    EngagementReturned =>
        LET m == ItsBundle
            e == TheEngagement
        IN  /\ ~ret.raised
            /\ e.views.perSubscriber =
                 (IF m.subscribers = 0 THEN 0
                  ELSE RoundDiv(m.viewsPerPost * 10000, m.subscribers))
            /\ e.forwards.rate =
                 (IF m.viewsPerPost = 0 THEN 0
                  ELSE RoundDiv(m.forwardsPerPost * 10000, m.viewsPerPost))
            /\ e.mentions.rate =
                 (IF m.viewsPerPost = 0 THEN 0
                  ELSE RoundDiv(m.mentionsPerPost * 10000, m.viewsPerPost))
            /\ e.views.perSubscriber \in Nat
            /\ e.forwards.rate \in Nat
            /\ e.mentions.rate \in Nat

\* forwards and mentions on posts nobody viewed, in a channel nobody follows:
\* all three ratios are 0
C22_Witness ==
    /\ op = "calculateEngagementMetrics"
    /\ passed[1].subscribers = 0
    /\ passed[1].viewsPerPost = 0
    /\ passed[1].forwardsPerPost = 70
    /\ passed[1].mentionsPerPost = 40
    /\ ret.value.views.perSubscriber = 0
    /\ ret.value.forwards.rate = 0
    /\ ret.value.mentions.rate = 0

\* the contribution of a value to the viral score: the points of the
\* highest threshold it strictly exceeds, 0 if it exceeds none.  A band is a
\* pair <<threshold, points>>.
BandPoints(value, bands) ==
    LET over == {b \in bands : value > b[1]}
    IN  IF over = {} THEN 0
        ELSE (CHOOSE b \in over : \A c \in over : c[1] <= b[1])[2]

ForwardBands == {<<500, 40>>, <<200, 25>>, <<100, 15>>}
MentionBands == {<<300, 30>>, <<100, 20>>, <<50, 10>>}
ViewBands    == {<<12000, 20>>, <<10000, 15>>, <<8000, 10>>}

ConsistencyPoints(consistency) ==
    CASE consistency = "excellent" -> 10
      [] consistency = "good"      -> 5
      [] OTHER                     -> 0

\* viral potential was computed, directly or within an analysis
ViralReturned ==
    \/ op = "calculateViralPotential"
    \/ op = "calculateEngagementMetrics"
    \/ op = "analyzeChannel" /\ ~ret.raised /\ ret.value.success

TheViralPotential ==
    CASE op = "calculateViralPotential"    -> ret.value
      [] op = "calculateEngagementMetrics" -> ret.value.viralPotential
      [] op = "analyzeChannel" -> ret.value.engagementMetrics.viralPotential
ItsEngagement ==
    CASE op = "calculateViralPotential"    -> passed[1]
      [] op = "calculateEngagementMetrics" -> ret.value
      [] op = "analyzeChannel"             -> ret.value.engagementMetrics

\* C23: viral potential is the sum of at most one band contribution per
\* category - forward rate (>5: 40, >2: 25, >1: 15), mention rate (>3: 30,
\* >1: 20, >0.5: 10), views per subscriber (>1.2: 20, >1: 15, >0.8: 10),
\* consistency (excellent: 10, good: 5) - with strict thresholds tested
\* highest first, capped at 100; the result is in [0, 100] and a value
\* exactly on a threshold falls into the lower band.
C23_ViralPotentialBands ==
    ViralReturned =>
        LET e   == ItsEngagement
            sum == BandPoints(e.forwards.rate, ForwardBands)
                     + BandPoints(e.mentions.rate, MentionBands)
                     + BandPoints(e.views.perSubscriber, ViewBands)
                     + ConsistencyPoints(e.activity.consistency)
        IN  /\ TheViralPotential = (IF sum > 100 THEN 100 ELSE sum)
            /\ TheViralPotential >= 0
            /\ TheViralPotential <= 100

\* every value exactly on its top threshold: the second bands count,
\* 25 + 20 + 15 + 10
C23_Witness ==
    /\ op = "calculateViralPotential"
    /\ passed[1].forwards.rate = 500
    /\ passed[1].mentions.rate = 300
    /\ passed[1].views.perSubscriber = 12000
    /\ passed[1].activity.consistency = "excellent"
    /\ ret.value = 70

\* the metrics the recommendations were made for
TheirMetrics ==
    IF op = "analyzeChannel" THEN ret.value.metrics ELSE passed[1]

\* the four findings in rule order, each with the condition that triggers it
Findings(metrics) ==
    << [when |-> metrics.reachPercentage < 2000, type |-> "warning"],
       [when |-> metrics.errPercent > 1000,      type |-> "danger"],
       [when |-> metrics.engagementRate < 500,   type |-> "info"],
       [when |-> metrics.postsPerDay > 50,       type |-> "warning"] >>

Triggered(finding) == finding.when

RECURSIVE TypesOf(_)
TypesOf(list) ==
    IF list = <<>> THEN <<>> ELSE <<Head(list).type>> \o TypesOf(Tail(list))

\* the ERR band that is penalised in the score but not reported as a danger
ErrBetweenThresholds(metrics) ==
    metrics.errPercent > 500 /\ metrics.errPercent <= 1000

\* C24: after the verdict, generateRecommendations appends, independently and
\* always in this order, a warning iff reachPercentage < 20, a danger iff
\* errPercent > 10, an info iff engagementRate < 5, a warning iff
\* postsPerDay > 5; the list has between 1 and 5 entries, and for
\* 5 < errPercent <= 10 the score's ERR penalty applies while no danger entry
\* is produced.
C24_FindingsInOrder ==
    /\ RecommendationsReturned =>
        LET m == TheirMetrics
        IN  /\ TypesOf(Tail(TheRecommendations))
                 = TypesOf(SelectSeq(Findings(m), Triggered))
            /\ Len(TheRecommendations) \in 1..5
            /\ ErrBetweenThresholds(m) =>
                 /\ \A i \in 1..Len(TheRecommendations) :
                        TheRecommendations[i].type # "danger"
                 /\ ErrModifier(m) < 20000
    /\ ScoreReturned /\ ErrBetweenThresholds(TheBundle) =>
        TheScore.modifiers.err < 20000

\* ERR of exactly 10 with the three other findings: no danger entry
C24_Witness ==
    /\ op = "generateRecommendations"
    /\ passed[1].errPercent = 1000
    /\ TypesOf(ret.value) = <<"warning", "warning", "info", "warning">>

\* the bundle and the score a price was estimated from
PricedMetrics == IF op = "analyzeChannel" THEN ret.value.metrics ELSE passed[1]
PricedScore ==
    IF op = "analyzeChannel" THEN ret.value.qualityScore ELSE passed[2]

\* the factor tables of the price, in tenths
SubscriberFactor(subscribers) ==
    CASE subscribers > 100000 -> 15
      [] subscribers <= 100000 /\ subscribers > 50000 -> 13
      [] subscribers <= 50000 /\ subscribers > 10000 -> 11
      [] subscribers <= 10000 /\ subscribers >= 1000 -> 10
      [] subscribers < 1000 -> 5

EngagementFactor(engagementRate) ==
    CASE engagementRate > 1500 -> 14
      [] engagementRate <= 1500 /\ engagementRate > 1000 -> 12
      [] engagementRate <= 1000 /\ engagementRate >= 300 -> 10
      [] engagementRate < 300 -> 8

VerifiedFactor(verified) == IF verified THEN 12 ELSE 10

\* 100 * subscriberTier * categoryMultiplier * (0.5 + overall/100)
\*     * engagementTier * verifiedFactor, in millionths: the tiers and the
\* category multiplier are tenths, overall is in hundredths
ProductCpmE6(metrics, qualityScore) ==
    SubscriberFactor(metrics.subscribers) * CategoryMultiplier(metrics.category)
    * (5000 + qualityScore.overall)
    * EngagementFactor(metrics.engagementRate) * VerifiedFactor(metrics.verified)

\* C25: estimateAdPrice's unrounded CPM equals 100 * subscriberTier *
\* categoryMultiplier * (0.5 + overall/100) * engagementTier * verifiedFactor
\* with subscriberTier 1.5 above 100000, 1.3 above 50000, 1.1 above 10000,
\* 0.5 below 1000 (so also for 0 subscribers), else 1.0; engagementTier 1.4
\* above 15, 1.2 above 10, 0.8 below 3, else 1.0; verifiedFactor 1.2 if
\* verified else 1; all comparisons strict, so the boundary values take the
\* lower or neutral factor.  cpm.avg is that product rounded.
C25_CpmIsTheProduct ==
    PriceReturned =>
        LET product == ProductCpmE6(PricedMetrics, PricedScore)
        IN  /\ CpmE6(PricedMetrics, PricedScore) = product
            /\ ThePrice.cpm.avg = RoundDiv(product, 1000000)
            /\ ThePrice.cpm.min = RoundDiv(MulShift6(product, 7000), 10000)
            /\ ThePrice.cpm.max = RoundDiv(MulShift6(product, 13000), 10000)

\* engagement of exactly 15 on a channel of exactly 100000 subscribers:
\* factors 1.2 and 1.3, with the full quality multiplier 1.5
C25_Witness ==
    /\ op = "estimateAdPrice"
    /\ passed[1].engagementRate = 1500
    /\ passed[1].subscribers = 100000
    /\ passed[1].category = "business"
    /\ passed[1].verified
    /\ passed[2].overall = 10000
    /\ ret.value.cpm.avg = 393

\* a metric that is absent from the score or at least 1 (hundredths)
ZeroOrAtLeastOne(x) == x = 0 \/ x >= 100

\* ERR not penalised, at least 2 subscribers, no metric strictly between 0 and 1
SmallButScored(metrics) ==
    /\ metrics.errPercent <= 500
    /\ metrics.subscribers >= 2
    /\ ZeroOrAtLeastOne(metrics.reachPercentage)
    /\ ZeroOrAtLeastOne(metrics.engagementRate)
    /\ ZeroOrAtLeastOne(metrics.ciIndex)

DearestPriced ==
    /\ op = "estimateAdPrice"
    /\ passed[1].subscribers = 100001
    /\ passed[1].category = "business"
    /\ passed[1].engagementRate = 1501
    /\ passed[1].verified
    /\ passed[2].overall = 10000
    /\ ret.value.cpm.avg = 529
    /\ ret.value.cpm.max = 688

\* a makeRequest call is under way; it has resolved or rejected
InFlight == request.pc \in {"delay", "fetch", "backoff"}
Settled  == request.pc \in {"resolved", "rejected"}

\* the counters of one top-level call: at most maxRetries + 1 fetches, at most
\* one retry per fetch, no retry scheduled at retryCount = maxRetries, and no
\* fetch by an invocation that found no key
RequestWithinBudget ==
    /\ request.retryCount <= MaxRetries
    /\ request.fetches <= MaxRetries + 1
    /\ request.fetches <= request.retryCount + 1
    /\ Len(request.seen) <= request.fetches
    /\ request.pc = "backoff" => request.retryCount < MaxRetries
    /\ (request.pc = "rejected" /\ request.error.message = "api_key_not_set") =>
         request.fetches = request.retryCount

\* retryCount changes only when a scheduled retry starts, and then by one
RetryStep ==
    (request'.pc # "none" /\ request'.retryCount # request.retryCount) =>
        /\ request.pc = "backoff"
        /\ request'.retryCount = request.retryCount + 1

\* C28: one top-level makeRequest call terminates (resolves or rejects) after
\* at most maxRetries + 1 = 4 fetch attempts for any sequence of server
\* responses and network faults: each attempt triggers at most one retry,
\* retryCount increases by exactly 1 per retry, no retry is started once
\* retryCount = maxRetries, and with no API key set it rejects without
\* performing any fetch.
C28_RequestTerminates ==
    /\ []RequestWithinBudget
    /\ [][RetryStep]_vars
    /\ (InFlight ~> Settled)

\* four server errors in a row: rejected after the fourth fetch
C28_Witness ==
    /\ request.pc = "rejected"
    /\ request.fetches = 4
    /\ request.retryCount = MaxRetries
    /\ Len(request.seen) = 4
    /\ \A i \in 1..4 : request.seen[i] = [kind |-> "response", status |-> 500]
    /\ request.error = Error("Error", "http_status")

\* no key: rejected at once, nothing fetched
RejectedWithoutKey ==
    /\ request.pc = "rejected"
    /\ request.retryCount = 0
    /\ request.fetches = 0
    /\ request.error = Error("Error", "api_key_not_set")

RECURSIVE UsernamesOf(_)
UsernamesOf(results) ==
    IF results = <<>> THEN <<>>
    ELSE <<Head(results).username>> \o UsernamesOf(Tail(results))

\* the callback threw in an iteration whose entry was already pushed: the
\* entry of the catch block follows it
CallbackErrors ==
    {i \in 1..Len(batch.results) :
        ~batch.results[i].success /\ batch.results[i].error = "callback_error"}

\* C29: batchAnalyzeChannels returns exactly one result per input username,
\* in input order, for any outcome of the info/stats lookups and any
\* behaviour of the onProgress callback (including one that throws): no
\* username appears twice, none is skipped, and a failed info lookup yields
\* an entry with success = false, info = null, stats = null.
C29_OneResultPerUsername ==
    batch.pc = "returned" =>
        /\ UsernamesOf(batch.results) = batch.usernames
        /\ \A i \in 1..Len(batch.results) :
             ~batch.results[i].success =>
                 /\ batch.results[i].info = NULL
                 /\ batch.results[i].stats = NULL

\* the same, for the calls in which no callback threw
OneResultPerUsernameIfCallbackReturns ==
    (batch.pc = "returned" /\ CallbackErrors = {}) =>
        UsernamesOf(batch.results) = batch.usernames

\* the list in storage
StoredResults == getAnalysisResults

\* the last k elements of a list, latest first
RECURSIVE LatestFirst(_, _)
LatestFirst(list, k) ==
    IF k = 0 \/ list = <<>> THEN <<>>
    ELSE <<list[Len(list)]>> \o LatestFirst(SubSeq(list, 1, Len(list) - 1), k - 1)

\* C30: after any sequence of addAnalysisResult calls (with storage writes
\* succeeding), the stored analysis-results list has at most 100 entries, is
\* ordered newest first, and consists of the most recent min(n, 100) added
\* results; older entries beyond 100 are the only ones dropped.
C30_LatestHundredNewestFirst ==
    /\ Len(StoredResults) <= 100
    /\ Len(StoredResults) = Min(Len(added), 100)
    /\ StoredResults = LatestFirst(added, Min(Len(added), 100))

\* 102 results added: the list holds 100, the latest on top, the first two gone
C30_Witness ==
    /\ op = "addAnalysisResult"
    /\ Len(added) = 102
    /\ Len(StoredResults) = 100
    /\ StoredResults[1] = ret.value
    /\ StoredResults[1].channel = 102
    /\ StoredResults[100].channel = 3

=============================================================================
